---------------------------- MODULE Spec2Model ----------------------------
(***************************************************************************)
(* Order-and-inventory core of the delivery backend: the Product stock     *)
(* methods, the Order status machine, the Coupon usage methods and the     *)
(* Cart pricing hooks, as the Mongoose models define them.                 *)
(*                                                                         *)
(* Persistence.  Every model method works on an in-memory document that a  *)
(* request loaded earlier and ends in document.save().  save() validates   *)
(* the modified paths against the schema (min, required) and, when valid,  *)
(* writes the document's modified paths to the stored record in one atomic *)
(* update: a modified scalar is written with the document's value, a       *)
(* push() on an array is appended to the stored array.  Nothing in the     *)
(* update compares the stored record with what the request loaded.         *)
(***************************************************************************)
EXTENDS Integers, Sequences, FiniteSets, TLC

(***************************************************************************)
(* Bounds of the model.                                                    *)
(***************************************************************************)
MaxStock == 2
MaxQty == 2

Procs == {"r1", "r2"}
Variants == {"v1", "v2"}
NoVariant == "v0"
VariantIds == Variants \cup {NoVariant}

VARIABLES
  stock,      \* Product.variants[v].stock as stored
  base,       \* the stored stock when the current round of requests began
  ppc,        \* per request: where it stands
  pdoc,       \* per request: the stock fields of the Product document it loaded
  preq        \* per request: the variant and quantity it works on, how it ended

VARIABLES
  ord,        \* the Order record as stored
  odoc,       \* per request: the Order document it loaded
  over,       \* per request: how many writes the order had seen when it loaded
  olast,      \* the last updateStatus call and how it ended
  ohist       \* the statuses written so far, at creation and then per transition,
              \* each with the number of writes its request had loaded

VARIABLES
  coupon,     \* the Coupon record as stored
  usages,     \* the CouponUsage collection: the facts recorded, in order
  orders,     \* per customer: how many orders not cancelled they have
  now,        \* Date.now()
  cdoc,       \* per request: the Coupon document it loaded
  cpc,        \* per request: where its redemption stands
  cuser,      \* per request: the customer it serves
  cres        \* per request: what canUserUseCoupon answered

VARIABLES
  price,      \* Product.variants[v].price as stored
  cart,       \* the customer's Cart record as stored
  cartOp      \* the last cart method called and how it ended

VARIABLES
  checkout    \* the checkout under way: its step, the next line, its undo log

VARIABLES
  calc        \* the last call of a method that only computes: inputs, answer

VARIABLES
  carts,      \* the Cart collection: its documents, in insertion order
  gcall       \* per request: where its getCartByUser stands

stockVars == <<stock, base, ppc, pdoc, preq>>
cartVars == <<price, cart, cartOp>>
orderVars == <<ord, odoc, over, olast, ohist>>
couponVars == <<coupon, usages, orders, now, cdoc, cpc, cuser, cres>>
getCartVars == <<carts, gcall>>

vars == <<stock, base, ppc, pdoc, preq, ord, odoc, over, olast, ohist,
          coupon, usages, orders, now, cdoc, cpc, cuser, cres,
          price, cart, cartOp, checkout, calc, carts, gcall>>

NoCalc == [fn |-> "none"]

-----------------------------------------------------------------------------
(***************************************************************************)
(* Inventory: Product.isAvailable and Product.updateStock.                 *)
(***************************************************************************)

NoDoc == [v \in Variants |-> 0]
NoReq == [variant |-> NoVariant, qty |-> 0, delta |-> 0, kind |-> "none",
          result |-> "none"]

\* this.variants.id(variantId): the variant subdocument, or null
hasVariant(doc, v) == v \in DOMAIN doc

\* isAvailable(variantId, quantity): variant && variant.stock >= quantity
isAvailable(doc, v, q) == hasVariant(doc, v) /\ doc[v] >= q

\* a stock field declared without its minimum
stockValid_noMin(n) == TRUE

\* variantSchema.stock: { type: Number, required: true, min: 0 }
stockValid(n) == n >= 0

\* variant.stock += quantity, on the in-memory document
updateStockDoc(doc, v, d) == [doc EXCEPT ![v] = @ + d]

\* Product.findById: the request gets its own copy of the stored document
LoadProduct(p) ==
  /\ ppc[p] = "idle"
  /\ pdoc' = [pdoc EXCEPT ![p] = stock]
  /\ ppc' = [ppc EXCEPT ![p] = "loaded"]
  /\ UNCHANGED <<stock, base, preq>>
  /\ UNCHANGED <<orderVars, couponVars, cartVars, checkout, calc, getCartVars>>

\* a purchase's availability check: product.isAvailable(variant, qty)
CheckAvailable(p) ==
  /\ ppc[p] = "loaded"
  /\ \E v \in VariantIds, q \in 1..MaxQty :
       /\ preq' = [preq EXCEPT ![p] =
                     [variant |-> v, qty |-> q, delta |-> 0, kind |-> "purchase",
                      result |-> IF isAvailable(pdoc[p], v, q)
                                 THEN "none" ELSE "unavailable"]]
       /\ ppc' = [ppc EXCEPT ![p] =
                     IF isAvailable(pdoc[p], v, q) THEN "checked" ELSE "done"]
  /\ UNCHANGED <<stock, base, pdoc>>
  /\ UNCHANGED <<orderVars, couponVars, cartVars, checkout, calc, getCartVars>>

\* updateStock(variantId, quantity) on the request's document, save() included
updateStock(p, v, d, kind) ==
  IF ~hasVariant(pdoc[p], v)
  THEN \* throw new Error('Variant not found')
       /\ preq' = [preq EXCEPT ![p] =
                     [@ EXCEPT !.variant = v, !.delta = d, !.kind = kind,
                               !.result = "notfound"]]
       /\ UNCHANGED <<stock, pdoc>>
  ELSE LET doc == updateStockDoc(pdoc[p], v, d) IN
       /\ pdoc' = [pdoc EXCEPT ![p] = doc]
       /\ IF stockValid(doc[v])
          THEN /\ stock' = [stock EXCEPT ![v] = doc[v]]
               /\ preq' = [preq EXCEPT ![p] =
                     [@ EXCEPT !.variant = v, !.delta = d, !.kind = kind,
                               !.result = "ok"]]
          ELSE \* save() rejects with a ValidationError, nothing is written
               /\ preq' = [preq EXCEPT ![p] =
                     [@ EXCEPT !.variant = v, !.delta = d, !.kind = kind,
                               !.result = "invalid"]]
               /\ UNCHANGED stock

\* the purchase's decrement: product.updateStock(variant, -qty)
Decrement(p) ==
  /\ ppc[p] = "checked"
  /\ updateStock(p, preq[p].variant, 0 - preq[p].qty, "purchase")
  /\ ppc' = [ppc EXCEPT ![p] = "done"]
  /\ UNCHANGED base
  /\ UNCHANGED <<orderVars, couponVars, cartVars, checkout, calc, getCartVars>>

\* any other caller of updateStock: restock, return, external adjustment
AdjustStock(p) ==
  /\ ppc[p] = "loaded"
  /\ \E v \in VariantIds, d \in ((0 - MaxQty)..MaxQty) \ {0} :
       /\ hasVariant(pdoc[p], v) => pdoc[p][v] + d <= MaxStock
       /\ updateStock(p, v, d, "adjust")
  /\ ppc' = [ppc EXCEPT ![p] = "done"]
  /\ UNCHANGED base
  /\ UNCHANGED <<orderVars, couponVars, cartVars, checkout, calc, getCartVars>>

\* all requests of the round have ended: the next round starts
NextRound ==
  /\ \A p \in Procs : ppc[p] = "done"
  /\ ppc' = [p \in Procs |-> "idle"]
  /\ pdoc' = [p \in Procs |-> NoDoc]
  /\ preq' = [p \in Procs |-> NoReq]
  /\ base' = stock
  /\ UNCHANGED stock
  /\ UNCHANGED <<orderVars, couponVars, cartVars, checkout, calc, getCartVars>>

StockNext ==
  \/ \E p \in Procs : LoadProduct(p)
  \/ \E p \in Procs : CheckAvailable(p)
  \/ \E p \in Procs : Decrement(p)
  \/ \E p \in Procs : AdjustStock(p)
  \/ NextRound


-----------------------------------------------------------------------------
(***************************************************************************)
(* Orders: the creation hook, updateStatus and its transition table.       *)
(***************************************************************************)
MaxTrack == 3

\* orderSchema.status: enum
Statuses == {"pending", "confirmed", "packed", "out_for_delivery", "delivered",
             "cancelled", "returned"}
\* a target that is no status of the enum
NoStatus == "archived"
Notes == {"", "by hand"}

\* deliveryPartner: a delivery partner's id, or not set
Partners == {"d1", "d2"}
NoPartner == "nobody"

NoOrder == [exists |-> FALSE, status |-> "pending", tracking |-> <<>>,
            actualDeliveryTime |-> FALSE, deliveryPartner |-> NoPartner]
\* a loaded document: its fields, and the tracking entries pushed on it that
\* its next save() is to append (the loaded entries themselves are never read);
\* assigned is the deliveryPartner set on the document and not yet saved
NoOrderDoc == [exists |-> FALSE, status |-> "pending", pushed |-> <<>>,
               actualDeliveryTime |-> FALSE, assigned |-> NoPartner]
NoCall == [by |-> "none", op |-> "none", from |-> NoStatus, to |-> NoStatus,
           result |-> "none", kept |-> TRUE]

\* a table that also lets a pending order leave for delivery
validTransitions_skip(s) ==
  CASE s = "pending" -> {"confirmed", "cancelled", "out_for_delivery"}
    [] s = "confirmed" -> {"packed", "cancelled"}
    [] s = "packed" -> {"out_for_delivery", "cancelled"}
    [] s = "out_for_delivery" -> {"delivered", "cancelled"}
    [] s = "delivered" -> {"returned"}
    [] OTHER -> {}

\* const validTransitions = { ... }
validTransitions(s) ==
  CASE s = "pending" -> {"confirmed", "cancelled"}
    [] s = "confirmed" -> {"packed", "cancelled"}
    [] s = "packed" -> {"out_for_delivery", "cancelled"}
    [] s = "out_for_delivery" -> {"delivered", "cancelled"}
    [] s = "delivered" -> {"returned"}
    [] s = "cancelled" -> {}
    [] s = "returned" -> {}

\* getStatusMessage(status)
getStatusMessage(s) ==
  CASE s = "pending" -> "Order is being processed"
    [] s = "confirmed" -> "Order confirmed and being prepared"
    [] s = "packed" -> "Order packed and ready for delivery"
    [] s = "out_for_delivery" -> "Order is out for delivery"
    [] s = "delivered" -> "Order delivered successfully"
    [] s = "cancelled" -> "Order cancelled"
    [] s = "returned" -> "Order returned"
    [] OTHER -> "Status updated"

\* a push that is lost: no tracking entry is written
pushTracking_none(pushed, s, note) == pushed

\* this.tracking.push({ status, timestamp, note, updatedBy })
pushTracking(pushed, s, note) ==
  Append(pushed, [status |-> s, note |-> note])

\* pre('save') on a new document: the first tracking entry
preSaveNew(doc) ==
  [doc EXCEPT !.pushed =
     pushTracking(@, doc.status, "Order placed successfully")]

\* assignments that stamp the delivery time on every transition
updateStatusDoc_stamps(doc, newStatus, note) ==
  [doc EXCEPT
     !.status = newStatus,
     !.pushed = pushTracking(@, newStatus,
                  IF note # "" THEN note ELSE getStatusMessage(newStatus)),
     !.actualDeliveryTime = TRUE]

\* updateStatus past its two checks: the document after the assignments
updateStatusDoc(doc, newStatus, note) ==
  [doc EXCEPT
     !.status = newStatus,
     !.pushed = pushTracking(@, newStatus,
                  IF note # "" THEN note ELSE getStatusMessage(newStatus)),
     !.actualDeliveryTime = IF newStatus = "delivered" THEN TRUE ELSE @]

\* save(): the document's status and delivery time are set on the stored
\* record and the pushed entries are appended to the stored tracking list
saveOrder(stored, doc) ==
  [stored EXCEPT
     !.exists = TRUE,
     !.status = doc.status,
     !.tracking = @ \o doc.pushed,
     !.actualDeliveryTime = doc.actualDeliveryTime \/ @,
     !.deliveryPartner = IF doc.assigned # NoPartner THEN doc.assigned ELSE @]

\* the document as it is once save() has returned
saved(doc) ==
  [doc EXCEPT !.exists = TRUE, !.pushed = <<>>, !.assigned = NoPartner]

\* findById: the document a request gets of the stored record
loaded(stored) ==
  [exists |-> stored.exists, status |-> stored.status, pushed |-> <<>>,
   actualDeliveryTime |-> stored.actualDeliveryTime, assigned |-> NoPartner]

\* paymentDetails.method: enum
PaymentMethods == {"cod", "online", "wallet", "card", "upi"}

\* a refund that never keeps the delivery charge back
calculateRefundAmount_full(method, status, totalAmount, charge) ==
  IF method = "cod" THEN 0
  ELSE IF status \in {"pending", "confirmed", "packed"} THEN totalAmount
  ELSE 0

\* calculateRefundAmount() on an order with this payment method, status and
\* orderSummary
calculateRefundAmount(method, status, totalAmount, charge) ==
  IF method = "cod" THEN 0
  ELSE IF status \in {"pending", "confirmed"} THEN totalAmount
  ELSE IF status = "packed" THEN totalAmount - charge
  ELSE 0

\* Order.create: the creator may supply a status, the default is pending
CreateOrder ==
  /\ ~ord.exists
  /\ \E s \in Statuses :
       /\ ord' = saveOrder(ord, preSaveNew([NoOrderDoc EXCEPT !.status = s]))
       /\ ohist' = <<[status |-> s, ver |-> 0]>>
  /\ UNCHANGED <<odoc, over, olast>>
  /\ UNCHANGED <<stockVars, couponVars, cartVars, checkout, calc, getCartVars>>

\* Order.findById
LoadOrder(p) ==
  /\ ord.exists
  /\ odoc[p] # loaded(ord) \/ over[p] # Len(ohist)
  /\ odoc' = [odoc EXCEPT ![p] = loaded(ord)]
  /\ over' = [over EXCEPT ![p] = Len(ohist)]
  /\ UNCHANGED <<ord, olast, ohist>>
  /\ UNCHANGED <<stockVars, couponVars, cartVars, checkout, calc, getCartVars>>

\* an updateStatus without its first check: the same status is written again
updateStatus_rewrites(p, doc, newStatus, note, op) ==
  IF doc.status = newStatus
  THEN LET after == updateStatusDoc(doc, newStatus, note) IN
       /\ Len(ord.tracking) < MaxTrack
       /\ ord' = saveOrder(ord, after)
       /\ odoc' = [odoc EXCEPT ![p] = saved(after)]
       /\ ohist' = Append(ohist, [status |-> newStatus, ver |-> over[p]])
       /\ over' = [over EXCEPT ![p] = Len(ohist) + 1]
       /\ olast' = [by |-> p, op |-> op, from |-> doc.status, to |-> newStatus,
                    result |-> "noop",
                    kept |-> ord' = ord /\ odoc' = odoc]
  ELSE IF newStatus \notin validTransitions(doc.status)
  THEN \* throw new Error(`Cannot change status from ... to ...`)
       /\ odoc' = [odoc EXCEPT ![p] = doc]
       /\ UNCHANGED <<ord, over, ohist>>
       /\ olast' = [by |-> p, op |-> op, from |-> doc.status, to |-> newStatus,
                    result |-> "invalid",
                    kept |-> ord' = ord /\ odoc' = odoc]
  ELSE LET after == updateStatusDoc(doc, newStatus, note) IN
       /\ Len(ord.tracking) < MaxTrack
       /\ ord' = saveOrder(ord, after)
       /\ odoc' = [odoc EXCEPT ![p] = saved(after)]
       /\ ohist' = Append(ohist, [status |-> newStatus, ver |-> over[p]])
       /\ over' = [over EXCEPT ![p] = Len(ohist) + 1]
       /\ olast' = [by |-> p, op |-> op, from |-> doc.status, to |-> newStatus,
                    result |-> "ok",
                    kept |-> ord' = ord /\ odoc' = odoc]

\* updateStatus(newStatus, note) on a request's document, save() included
updateStatus(p, doc, newStatus, note, op) ==
  IF doc.status = newStatus
  THEN \* return Promise.resolve(this)
       /\ odoc' = [odoc EXCEPT ![p] = doc]
       /\ UNCHANGED <<ord, over, ohist>>
       /\ olast' = [by |-> p, op |-> op, from |-> doc.status, to |-> newStatus,
                    result |-> "noop",
                    kept |-> ord' = ord /\ odoc' = odoc]
  ELSE IF newStatus \notin validTransitions(doc.status)
  THEN \* throw new Error(`Cannot change status from ... to ...`)
       /\ odoc' = [odoc EXCEPT ![p] = doc]
       /\ UNCHANGED <<ord, over, ohist>>
       /\ olast' = [by |-> p, op |-> op, from |-> doc.status, to |-> newStatus,
                    result |-> "invalid",
                    kept |-> ord' = ord /\ odoc' = odoc]
  ELSE LET after == updateStatusDoc(doc, newStatus, note) IN
       /\ Len(ord.tracking) < MaxTrack
       /\ ord' = saveOrder(ord, after)
       /\ odoc' = [odoc EXCEPT ![p] = saved(after)]
       /\ ohist' = Append(ohist, [status |-> newStatus, ver |-> over[p]])
       /\ over' = [over EXCEPT ![p] = Len(ohist) + 1]
       /\ olast' = [by |-> p, op |-> op, from |-> doc.status, to |-> newStatus,
                    result |-> "ok",
                    kept |-> ord' = ord /\ odoc' = odoc]

\* order.updateStatus(newStatus, note)
UpdateStatus(p) ==
  /\ odoc[p].exists
  /\ \E newStatus \in Statuses \cup {NoStatus}, note \in Notes :
       updateStatus(p, odoc[p], newStatus, note, "updateStatus")
  /\ UNCHANGED <<stockVars, couponVars, cartVars, checkout, calc, getCartVars>>

\* order.assignDeliveryPartner(partnerId): this.deliveryPartner = partnerId,
\* then updateStatus('out_for_delivery', 'Assigned to delivery partner')
AssignDeliveryPartner(p) ==
  /\ odoc[p].exists
  /\ \E partnerId \in Partners :
       updateStatus(p, [odoc[p] EXCEPT !.assigned = partnerId],
                    "out_for_delivery", "Assigned to delivery partner",
                    "assignDeliveryPartner")
  /\ UNCHANGED <<stockVars, couponVars, cartVars, checkout, calc, getCartVars>>

\* order.calculateRefundAmount() on the document a request holds, once; the
\* order's payment method and orderSummary never change and are drawn here,
\* where they are read.  The last updateStatus call is kept with the answer.
CalculateRefundAmountOf(p) ==
  /\ calc = NoCalc
  /\ odoc[p].exists
  /\ \E method \in {"cod", "online"}, total \in {129}, charge \in {29} :
       calc' = [fn |-> "calculateRefundAmount of", by |-> p, method |-> method,
                status |-> odoc[p].status, totalAmount |-> total,
                deliveryCharge |-> charge, last |-> olast,
                out |-> calculateRefundAmount(method, odoc[p].status, total,
                                              charge)]
  /\ UNCHANGED <<stockVars, orderVars, couponVars, cartVars, checkout, getCartVars>>

OrderNext ==
  \/ CreateOrder
  \/ \E p \in Procs : LoadOrder(p)
  \/ \E p \in Procs : UpdateStatus(p)

-----------------------------------------------------------------------------
(***************************************************************************)
(* Coupons: isValidForUsage, canUserUseCoupon, useCoupon and the           *)
(* CouponUsage collection.                                                 *)
(***************************************************************************)
MaxTime == 2
MaxLimit == 2
MaxUsed == 3
MaxOrders == 1

\* usageLimit: { default: null }; a maxDiscount that is not set
Null == -1

Users == {"u1", "u2"}

\* a coupon as the Coupon schema stores it
FreshCoupon ==
  [code |-> "FLAT50", discountType |-> "fixed", discountValue |-> 50,
   minOrderAmount |-> 300, maxDiscount |-> Null,
   usageLimit |-> Null, usedCount |-> 0, userUsageLimit |-> 1,
   validFrom |-> 1, validUntil |-> 1,
   isActive |-> TRUE, isFirstOrderOnly |-> FALSE]

\* a validity that does not look at the usage cap
isValidForUsage_noCap(c, t) ==
  /\ c.isActive
  /\ t >= c.validFrom
  /\ t <= c.validUntil

\* couponSchema.virtual('isValidForUsage')
isValidForUsage(c, t) ==
  /\ c.isActive
  /\ t >= c.validFrom
  /\ t <= c.validUntil
  /\ (c.usageLimit = Null \/ c.usedCount < c.usageLimit)

\* a canUserUseCoupon that looks at the customer's usage count before the
\* first-order rule
canUserUseCoupon_capFirst(c, t, orderCount, userUsageCount) ==
  IF ~isValidForUsage(c, t)
  THEN [canUse |-> FALSE, reason |-> "Coupon is not valid"]
  ELSE IF userUsageCount >= c.userUsageLimit
  THEN [canUse |-> FALSE,
        reason |-> "You have already used this coupon maximum times"]
  ELSE IF c.isFirstOrderOnly /\ orderCount > 0
  THEN [canUse |-> FALSE, reason |-> "This coupon is only valid for first order"]
  ELSE [canUse |-> TRUE, reason |-> ""]

\* canUserUseCoupon(userId), given what its two countDocuments calls return
canUserUseCoupon(c, t, orderCount, userUsageCount) ==
  IF ~isValidForUsage(c, t)
  THEN [canUse |-> FALSE, reason |-> "Coupon is not valid"]
  ELSE IF c.isFirstOrderOnly /\ orderCount > 0
  THEN [canUse |-> FALSE, reason |-> "This coupon is only valid for first order"]
  ELSE IF userUsageCount >= c.userUsageLimit
  THEN [canUse |-> FALSE,
        reason |-> "You have already used this coupon maximum times"]
  ELSE [canUse |-> TRUE, reason |-> ""]

\* a calculateDiscount without its closing Math.min(discount, applicableAmount)
calculateDiscount_unclamped(c, t, cartTotal) ==
  IF ~isValidForUsage(c, t)
  THEN [ok |-> FALSE, error |-> "Coupon is not valid", discount |-> 0]
  ELSE IF cartTotal < c.minOrderAmount
  THEN [ok |-> FALSE, error |-> "Minimum order amount required", discount |-> 0]
  ELSE [ok |-> TRUE, error |-> "",
        discount |-> IF c.discountType = "percentage"
                     THEN (cartTotal * c.discountValue) \div 100
                     ELSE c.discountValue]

\* calculateDiscount(cartTotal): the amount returned, or the error thrown.
\* if (this.maxDiscount) holds for a maxDiscount that is set and not 0.
calculateDiscount(c, t, cartTotal) ==
  IF ~isValidForUsage(c, t)
  THEN [ok |-> FALSE, error |-> "Coupon is not valid", discount |-> 0]
  ELSE IF cartTotal < c.minOrderAmount
  THEN [ok |-> FALSE, error |-> "Minimum order amount required", discount |-> 0]
  ELSE LET applicableAmount == cartTotal
           discount ==
             IF c.discountType = "percentage"
             THEN LET d == (applicableAmount * c.discountValue) \div 100 IN
                  IF c.maxDiscount # Null /\ c.maxDiscount # 0
                  THEN (IF d <= c.maxDiscount THEN d ELSE c.maxDiscount)
                  ELSE d
             ELSE c.discountValue IN
       [ok |-> TRUE, error |-> "",
        discount |-> IF discount <= applicableAmount THEN discount
                     ELSE applicableAmount]

\* CouponUsage.countDocuments({ coupon, user })
usageCount(facts, u) ==
  Cardinality({i \in 1..Len(facts) : facts[i].user = u})

\* a CouponUsage schema that does not require discountAmount
usageValid_lax(fact) == "user" \in DOMAIN fact

\* couponUsageSchema: coupon and user required, discountAmount required, min 0
usageValid(fact) ==
  /\ "coupon" \in DOMAIN fact
  /\ "user" \in DOMAIN fact
  /\ "discountAmount" \in DOMAIN fact
  /\ fact.discountAmount >= 0

\* the document useCoupon hands to CouponUsage.create
usageFact(c, u, t) == [coupon |-> c.code, user |-> u, usedAt |-> t]

NoAnswer == [canUse |-> FALSE, reason |-> "none"]

\* Coupon.findOne / findById, for a customer's redemption
LoadCoupon(p) ==
  /\ cpc[p] = "idle"
  /\ \E u \in Users : cuser' = [cuser EXCEPT ![p] = u]
  /\ cdoc' = [cdoc EXCEPT ![p] = coupon]
  /\ cpc' = [cpc EXCEPT ![p] = "loaded"]
  /\ UNCHANGED <<coupon, usages, orders, now, cres>>
  /\ UNCHANGED <<stockVars, orderVars, cartVars, checkout, calc, getCartVars>>

\* coupon.canUserUseCoupon(userId)
CheckEligible(p) ==
  /\ cpc[p] = "loaded"
  /\ LET answer == canUserUseCoupon(cdoc[p], now, orders[cuser[p]],
                                    usageCount(usages, cuser[p])) IN
       /\ cres' = [cres EXCEPT ![p] = answer]
       /\ cpc' = [cpc EXCEPT ![p] = IF answer.canUse THEN "eligible" ELSE "done"]
  /\ UNCHANGED <<coupon, usages, orders, now, cdoc, cuser>>
  /\ UNCHANGED <<stockVars, orderVars, cartVars, checkout, calc, getCartVars>>

\* useCoupon, first half: this.usedCount += 1; await this.save()
UseCouponSave(p) ==
  /\ cpc[p] = "eligible"
  /\ cdoc[p].usedCount < MaxUsed
  /\ cdoc' = [cdoc EXCEPT ![p].usedCount = @ + 1]
  /\ coupon' = [coupon EXCEPT !.usedCount = cdoc[p].usedCount + 1]
  /\ cpc' = [cpc EXCEPT ![p] = "saved"]
  /\ UNCHANGED <<usages, orders, now, cuser, cres>>
  /\ UNCHANGED <<stockVars, orderVars, cartVars, checkout, calc, getCartVars>>

\* useCoupon, second half: await CouponUsage.create({ coupon, user, usedAt })
UseCouponRecord(p) ==
  /\ cpc[p] = "saved"
  /\ LET fact == usageFact(cdoc[p], cuser[p], now) IN
       IF usageValid(fact)
       THEN /\ usages' = Append(usages, fact)
            /\ cpc' = [cpc EXCEPT ![p] = "done"]
       ELSE \* create() rejects with a ValidationError, useCoupon throws
            /\ cpc' = [cpc EXCEPT ![p] = "threw"]
            /\ UNCHANGED usages
  /\ UNCHANGED <<coupon, orders, now, cdoc, cuser, cres>>
  /\ UNCHANGED <<stockVars, orderVars, cartVars, checkout, calc, getCartVars>>

\* the request has ended; the next one it serves starts afresh
EndRedemption(p) ==
  /\ cpc[p] \in {"done", "threw"}
  /\ cpc' = [cpc EXCEPT ![p] = "idle"]
  /\ cdoc' = [cdoc EXCEPT ![p] = FreshCoupon]
  /\ cuser' = [cuser EXCEPT ![p] = "u1"]
  /\ cres' = [cres EXCEPT ![p] = NoAnswer]
  /\ UNCHANGED <<coupon, usages, orders, now>>
  /\ UNCHANGED <<stockVars, orderVars, cartVars, checkout, calc, getCartVars>>

CouponNext ==
  \/ \E p \in Procs : LoadCoupon(p)
  \/ \E p \in Procs : CheckEligible(p)
  \/ \E p \in Procs : UseCouponSave(p)
  \/ \E p \in Procs : UseCouponRecord(p)
  \/ \E p \in Procs : EndRedemption(p)

-----------------------------------------------------------------------------
(***************************************************************************)
(* Cart: the pre('save') totals and the cart methods.  A cart belongs to   *)
(* one customer and each request loads it, calls one method and saves, so  *)
(* a method is one step on the stored cart.  Amounts are whole rupees; the *)
(* prices and percentages used keep every discount whole.                  *)
(***************************************************************************)
\* process.env.MIN_ORDER_AMOUNT || 99, DELIVERY_CHARGE || 29,
\* FREE_DELIVERY_ABOVE || 299
minOrderAmount == 99
deliveryCharge == 29
freeDeliveryAbove == 299

Products == {"p1"}
NoProduct == "p0"
ProductIds == Products \cup {NoProduct}
NoCode == ""
QtyInputs == (0 - 1)..MaxQty

\* the catalogue's prices: v1 at 100 (mrp 120), v2 at 50 (mrp 60)
ListPrice ==
  [v \in Variants |->
     IF v = "v1" THEN [mrp |-> 120, sellingPrice |-> 100, discount |-> 0]
                 ELSE [mrp |-> 60, sellingPrice |-> 50, discount |-> 0]]

\* the coupons on offer: 50 off orders of 300 and more; half off orders of
\* 200 and more, capped at 100; 150 off any order (minOrderAmount: default 0)
Flat50 == FreshCoupon
Flat150 ==
  [FreshCoupon EXCEPT !.code = "FLAT150", !.discountValue = 150,
                      !.minOrderAmount = 0]
Half100 ==
  [FreshCoupon EXCEPT !.code = "HALF100", !.discountType = "percentage",
                      !.discountValue = 50, !.minOrderAmount = 200,
                      !.maxDiscount = 100]

\* a tenth off any order: no minimum, no cap
Tenth ==
  [FreshCoupon EXCEPT !.code = "TENTH", !.discountType = "percentage",
                      !.discountValue = 10, !.minOrderAmount = 0]

\* Cart.create({ user }) once saved
EmptyCart ==
  [items |-> <<>>, couponCode |-> NoCode, couponDiscount |-> 0,
   totalItems |-> 0, subtotal |-> 0, totalDiscount |-> 0,
   deliveryCharge |-> 0, totalAmount |-> 0]

NoCartOp == [op |-> "none", ok |-> TRUE, error |-> ""]

\* this.items.reduce((total, item) => total + item.quantity, 0)
RECURSIVE sumQuantity(_)
sumQuantity(items) ==
  IF items = <<>> THEN 0
  ELSE sumQuantity(SubSeq(items, 1, Len(items) - 1)) + items[Len(items)].quantity

\* this.items.reduce((total, item) => total + sellingPrice * quantity, 0)
RECURSIVE sumSelling(_)
sumSelling(items) ==
  IF items = <<>> THEN 0
  ELSE sumSelling(SubSeq(items, 1, Len(items) - 1))
       + items[Len(items)].price.sellingPrice * items[Len(items)].quantity

\* this.items.reduce((total, item) => total + (mrp - sellingPrice) * quantity, 0)
RECURSIVE sumItemDiscount(_)
sumItemDiscount(items) ==
  IF items = <<>> THEN 0
  ELSE sumItemDiscount(SubSeq(items, 1, Len(items) - 1))
       + (items[Len(items)].price.mrp - items[Len(items)].price.sellingPrice)
         * items[Len(items)].quantity

\* a delivery charge without the tier below the minimum order
deliveryFor_twoTier(subtotal) ==
  IF subtotal >= freeDeliveryAbove THEN 0 ELSE deliveryCharge

\* the three-tier delivery charge of pre('save')
deliveryFor(subtotal) ==
  IF subtotal >= freeDeliveryAbove THEN 0
  ELSE IF subtotal >= minOrderAmount THEN deliveryCharge
  ELSE 0

\* a hook that leaves the stored subtotal as it was
cartPreSave_stale(c) ==
  [c EXCEPT
     !.totalItems = sumQuantity(c.items),
     !.totalDiscount = sumItemDiscount(c.items) + c.couponDiscount,
     !.deliveryCharge = deliveryFor(c.subtotal),
     !.totalAmount = c.subtotal + deliveryFor(c.subtotal) - c.couponDiscount]

\* cartSchema.pre('save')
cartPreSave(c) ==
  LET subtotal == sumSelling(c.items) IN
  [c EXCEPT
     !.totalItems = sumQuantity(c.items),
     !.subtotal = subtotal,
     !.totalDiscount = sumItemDiscount(c.items) + c.couponDiscount,
     !.deliveryCharge = deliveryFor(subtotal),
     !.totalAmount = subtotal + deliveryFor(subtotal) - c.couponDiscount]

\* a schema without the minimum on quantity
cartValid_noMin(c) == \A i \in 1..Len(c.items) : c.items[i].quantity \in Int

\* cartItemSchema.quantity: { required: true, min: 1 }
cartValid(c) == \A i \in 1..Len(c.items) : c.items[i].quantity >= 1

\* this.items.findIndex(item => product and variant match); 0 for -1
findItem(items, pid, vid) ==
  LET hits == {i \in 1..Len(items) :
                 items[i].product = pid /\ items[i].variant = vid} IN
  IF hits = {} THEN 0 ELSE CHOOSE i \in hits : \A j \in hits : i <= j

\* this.items.filter(item => !(product and variant match))
RECURSIVE withoutItem(_, _, _)
withoutItem(items, pid, vid) ==
  IF items = <<>> THEN <<>>
  ELSE LET rest == withoutItem(SubSeq(items, 1, Len(items) - 1), pid, vid)
           item == items[Len(items)] IN
       IF item.product = pid /\ item.variant = vid THEN rest
       ELSE Append(rest, item)

\* this.items.splice(itemIndex, 1)
spliceItem(items, i) ==
  SubSeq(items, 1, i - 1) \o SubSeq(items, i + 1, Len(items))

Threw(c, msg) == [ok |-> FALSE, error |-> msg, cart |-> c]
Changed(c) == [ok |-> TRUE, error |-> "", cart |-> c]

\* an addItem that checks the stock against the added quantity alone
addItemDoc_deltaOnly(c, stk, prices, pid, vid, q) ==
  IF pid \notin Products THEN Threw(c, "Product not found")
  ELSE IF ~hasVariant(stk, vid) THEN Threw(c, "Product variant not found")
  ELSE IF ~isAvailable(stk, vid, q) THEN Threw(c, "Insufficient stock")
  ELSE LET i == findItem(c.items, pid, vid) IN
       IF i > 0
       THEN Changed([c EXCEPT !.items[i].quantity = @ + q])
       ELSE Changed([c EXCEPT !.items =
                       Append(@, [product |-> pid, variant |-> vid,
                                  quantity |-> q, price |-> prices[vid]])])

\* an addItem whose merge takes the variant's price of the moment
addItemDoc_refresh(c, stk, prices, pid, vid, q) ==
  IF pid \notin Products THEN Threw(c, "Product not found")
  ELSE IF ~hasVariant(stk, vid) THEN Threw(c, "Product variant not found")
  ELSE IF ~isAvailable(stk, vid, q) THEN Threw(c, "Insufficient stock")
  ELSE LET i == findItem(c.items, pid, vid) IN
       IF i > 0
       THEN LET newQuantity == c.items[i].quantity + q IN
            IF ~isAvailable(stk, vid, newQuantity)
            THEN Threw(c, "Insufficient stock for requested quantity")
            ELSE Changed([c EXCEPT !.items[i].quantity = newQuantity,
                                   !.items[i].price = prices[vid]])
       ELSE Changed([c EXCEPT !.items =
                       Append(@, [product |-> pid, variant |-> vid,
                                  quantity |-> q, price |-> prices[vid]])])

\* addItem up to its save(): the document, or the error thrown
addItemDoc(c, stk, prices, pid, vid, q) ==
  IF pid \notin Products THEN Threw(c, "Product not found")
  ELSE IF ~hasVariant(stk, vid) THEN Threw(c, "Product variant not found")
  ELSE IF ~isAvailable(stk, vid, q) THEN Threw(c, "Insufficient stock")
  ELSE LET i == findItem(c.items, pid, vid) IN
       IF i > 0
       THEN LET newQuantity == c.items[i].quantity + q IN
            IF ~isAvailable(stk, vid, newQuantity)
            THEN Threw(c, "Insufficient stock for requested quantity")
            ELSE Changed([c EXCEPT !.items[i].quantity = newQuantity])
       ELSE Changed([c EXCEPT !.items =
                       Append(@, [product |-> pid, variant |-> vid,
                                  quantity |-> q, price |-> prices[vid]])])

\* updateItemQuantity up to its save()
updateItemQuantityDoc(c, stk, pid, vid, q) ==
  IF pid \notin Products THEN Threw(c, "Product not found")
  ELSE IF ~isAvailable(stk, vid, q) THEN Threw(c, "Insufficient stock")
  ELSE LET i == findItem(c.items, pid, vid) IN
       IF i = 0 THEN Threw(c, "Item not found in cart")
       ELSE IF q <= 0 THEN Changed([c EXCEPT !.items = spliceItem(@, i)])
       ELSE Changed([c EXCEPT !.items[i].quantity = q])

\* removeItem up to its save()
removeItemDoc(c, pid, vid) ==
  Changed([c EXCEPT !.items = withoutItem(@, pid, vid)])

\* clearCart up to its save()
clearCartDoc(c) ==
  Changed([c EXCEPT !.items = <<>>, !.couponCode = NoCode, !.couponDiscount = 0])

\* Coupon.findOne({ code, isActive: true, validFrom <= now, validUntil >= now })
findCoupon(c, code, t) ==
  c.code = code /\ c.isActive /\ c.validFrom <= t /\ c.validUntil >= t

\* if (coupon.maxDiscount): set, and not 0
isSet(n) == n # Null /\ n # 0

Min(a, b) == IF a <= b THEN a ELSE b

\* applyCoupon without the minimum-order test
applyCouponDoc_noMinimum(c, cpn, code, t) ==
  IF ~findCoupon(cpn, code, t) THEN Threw(c, "Invalid or expired coupon")
  ELSE Changed([c EXCEPT !.couponCode = code,
                         !.couponDiscount = cpn.discountValue])

\* applyCoupon up to its save()
applyCouponDoc(c, cpn, code, t) ==
  IF ~findCoupon(cpn, code, t) THEN Threw(c, "Invalid or expired coupon")
  ELSE IF c.subtotal < cpn.minOrderAmount
  THEN Threw(c, "Minimum order amount required")
  ELSE LET discount ==
             IF cpn.discountType = "percentage"
             THEN LET d == (c.subtotal * cpn.discountValue) \div 100 IN
                  IF isSet(cpn.maxDiscount) THEN Min(d, cpn.maxDiscount) ELSE d
             ELSE cpn.discountValue IN
       Changed([c EXCEPT !.couponCode = code, !.couponDiscount = discount])

\* removeCoupon up to its save()
removeCouponDoc(c) ==
  Changed([c EXCEPT !.couponCode = NoCode, !.couponDiscount = 0])

\* the method's outcome, then save(): validation, the totals, the write
CartSave(op, r) ==
  IF ~r.ok
  THEN /\ cartOp' = [op |-> op, ok |-> FALSE, error |-> r.error]
       /\ UNCHANGED cart
  ELSE IF ~cartValid(r.cart)
  THEN /\ cartOp' = [op |-> op, ok |-> FALSE, error |-> "ValidationError"]
       /\ UNCHANGED cart
  ELSE /\ cartOp' = [op |-> op, ok |-> TRUE, error |-> ""]
       /\ cart' = cartPreSave(r.cart)

OtherThanCart == <<stockVars, orderVars, couponVars, price, checkout, calc, getCartVars>>

AddItem ==
  /\ \E pid \in ProductIds, vid \in VariantIds, q \in QtyInputs :
       CartSave("addItem", addItemDoc(cart, stock, price, pid, vid, q))
  /\ UNCHANGED OtherThanCart

UpdateItemQuantity ==
  /\ \E pid \in ProductIds, vid \in VariantIds, q \in QtyInputs :
       CartSave("updateItemQuantity",
                updateItemQuantityDoc(cart, stock, pid, vid, q))
  /\ UNCHANGED OtherThanCart

\* the prices after a revision: v1 sells at 90, v2 is listed at an mrp of 70
RevisedPrice ==
  [v \in Variants |->
     IF v = "v1" THEN [mrp |-> 120, sellingPrice |-> 90, discount |-> 0]
                 ELSE [mrp |-> 70, sellingPrice |-> 50, discount |-> 0]]

\* the shop saves a product with another mrp or sellingPrice for a variant
ChangePrice ==
  /\ \E v \in Variants :
       \E pr \in {ListPrice[v], RevisedPrice[v]} :
         /\ pr # price[v]
         /\ price' = [price EXCEPT ![v] = pr]
  /\ UNCHANGED <<cart, cartOp>>
  /\ UNCHANGED <<stockVars, orderVars, couponVars, checkout, calc, getCartVars>>

\* the cart getCartByUser returns when the customer has one:
\* findOne({ user }).populate('items.product') puts the Product document in
\* the place of each line's product id, and a document's toString() is the
\* text of its inspect(), not its id
inspect(id) == "{ _id: " \o id \o ", ... }"

populated(c) ==
  [c EXCEPT !.items =
     [i \in 1..Len(c.items) |->
        [c.items[i] EXCEPT !.product = inspect(c.items[i].product)]]]

\* save() of a document with populated paths stores the ids
depopulated(c) ==
  [c EXCEPT !.items =
     [i \in 1..Len(c.items) |->
        LET ref == c.items[i].product IN
        IF \E id \in Products : ref = inspect(id)
        THEN [c.items[i] EXCEPT
                !.product = CHOOSE id \in Products : ref = inspect(id)]
        ELSE c.items[i]]]

\* the method's outcome on the populated document, as save() stores it
stored(r) == [r EXCEPT !.cart = depopulated(r.cart)]

MaxLines == 3

\* (await Cart.getCartByUser(user)).addItem(productId, variantId, quantity)
GetCartAddItem ==
  /\ Len(cart.items) < MaxLines
  /\ \E pid \in ProductIds, vid \in VariantIds, q \in QtyInputs :
       CartSave("addItem",
                stored(addItemDoc(populated(cart), stock, price, pid, vid, q)))
  /\ UNCHANGED OtherThanCart

\* (await Cart.getCartByUser(user)).updateItemQuantity(productId, variantId, q)
GetCartUpdateItemQuantity ==
  /\ \E pid \in ProductIds, vid \in VariantIds, q \in QtyInputs :
       CartSave("updateItemQuantity",
                stored(updateItemQuantityDoc(populated(cart), stock,
                                             pid, vid, q)))
  /\ UNCHANGED OtherThanCart

\* (await Cart.getCartByUser(user)).removeItem(productId, variantId)
GetCartRemoveItem ==
  /\ \E pid \in ProductIds, vid \in VariantIds :
       CartSave("removeItem", stored(removeItemDoc(populated(cart), pid, vid)))
  /\ UNCHANGED OtherThanCart

\* an order whose orderSummary copies the cart's totals, paid online, is
\* asked calculateRefundAmount() in some status
RefundOfCartOrder ==
  /\ calc = NoCalc
  /\ Len(cart.items) > 0
  /\ \E status \in Statuses :
       calc' = [fn |-> "calculateRefundAmount of a cart's order",
                status |-> status,
                subtotal |-> cart.subtotal,
                deliveryCharge |-> cart.deliveryCharge,
                couponDiscount |-> cart.couponDiscount,
                totalAmount |-> cart.totalAmount,
                out |-> calculateRefundAmount("online", status,
                          cart.totalAmount, cart.deliveryCharge)]
  /\ UNCHANGED <<stockVars, orderVars, couponVars, cartVars, checkout,
                 getCartVars>>

\* addItem, once, on a stored cart; the arguments are kept
AddItemCall ==
  /\ calc = NoCalc
  /\ \E pid \in ProductIds, vid \in VariantIds, q \in QtyInputs :
       /\ CartSave("addItem", addItemDoc(cart, stock, price, pid, vid, q))
       /\ calc' = [fn |-> "addItem", product |-> pid, variant |-> vid,
                   quantity |-> q, before |-> cart]
  /\ UNCHANGED <<stockVars, orderVars, couponVars, price, checkout, getCartVars>>

\* updateItemQuantity, once, on a stored cart; the arguments are kept
UpdateItemQuantityCall ==
  /\ calc = NoCalc
  /\ \E pid \in ProductIds, vid \in VariantIds, q \in QtyInputs :
       /\ CartSave("updateItemQuantity",
                   updateItemQuantityDoc(cart, stock, pid, vid, q))
       /\ calc' = [fn |-> "updateItemQuantity", product |-> pid,
                   variant |-> vid, quantity |-> q, before |-> cart]
  /\ UNCHANGED <<stockVars, orderVars, couponVars, price, checkout, getCartVars>>

RemoveItem ==
  /\ \E pid \in ProductIds, vid \in VariantIds :
       CartSave("removeItem", removeItemDoc(cart, pid, vid))
  /\ UNCHANGED OtherThanCart

ClearCart ==
  /\ CartSave("clearCart", clearCartDoc(cart))
  /\ UNCHANGED OtherThanCart

ApplyCoupon ==
  /\ \E code \in {coupon.code, "NOSUCH"} :
       CartSave("applyCoupon", applyCouponDoc(cart, coupon, code, now))
  /\ UNCHANGED OtherThanCart

RemoveCoupon ==
  /\ CartSave("removeCoupon", removeCouponDoc(cart))
  /\ UNCHANGED OtherThanCart

CartNext ==
  \/ AddItem
  \/ UpdateItemQuantity
  \/ RemoveItem
  \/ ClearCart
  \/ ApplyCoupon
  \/ RemoveCoupon

-----------------------------------------------------------------------------
(***************************************************************************)
(* Checkout.  The order routes that turn a cart into an order are not part *)
(* of the sources at hand; the steps below follow the design's section 4.4 *)
(* (stock decremented line by line, the order aborted when a line is not   *)
(* available, coupon usage recorded, the cart cleared, all as one unit of   *)
(* work that the persistence layer rolls back on failure) and call the     *)
(* model methods for each step.  Other requests change the stock only      *)
(* between checkouts.                                                      *)
(***************************************************************************)
NoCheckout ==
  [pc |-> "idle", line |-> 1, undo |-> <<>>, why |-> "",
   start |-> [stock |-> [v \in Variants |-> 0], cart |-> EmptyCart,
              usedCount |-> 0, usages |-> <<>>]]

\* the stock with the decrements of the undo log taken back
RECURSIVE undoStock(_, _)
undoStock(stk, undo) ==
  IF undo = <<>> THEN stk
  ELSE undoStock([stk EXCEPT ![Head(undo).variant] = @ + Head(undo).qty],
                 Tail(undo))

\* an abort that leaves the writes of the unit of work in place
abortedStock_kept(stk, undo) == stk

\* an abort: the unit of work's stock writes are rolled back
abortedStock(stk, undo) == undoStock(stk, undo)

BeginCheckout ==
  /\ checkout.pc = "idle"
  /\ Len(cart.items) >= 1
  /\ checkout' = [pc |-> "lines", line |-> 1, undo |-> <<>>, why |-> "",
                  start |-> [stock |-> stock, cart |-> cart,
                             usedCount |-> coupon.usedCount, usages |-> usages]]
  /\ UNCHANGED <<stockVars, orderVars, couponVars, cartVars, calc, getCartVars>>

\* one line: product.isAvailable(variant, quantity), then
\* product.updateStock(variant, -quantity); the order is aborted otherwise
CheckoutLine ==
  /\ checkout.pc = "lines"
  /\ LET item == cart.items[checkout.line]
         doc == updateStockDoc(stock, item.variant, 0 - item.quantity) IN
       IF isAvailable(stock, item.variant, item.quantity)
          /\ stockValid(doc[item.variant])
       THEN /\ stock' = doc
            /\ checkout' =
                 [checkout EXCEPT
                    !.pc = IF checkout.line = Len(cart.items)
                           THEN "usage" ELSE "lines",
                    !.line = @ + 1,
                    !.undo = Append(@, [variant |-> item.variant,
                                        qty |-> item.quantity])]
       ELSE /\ stock' = abortedStock(stock, checkout.undo)
            /\ checkout' = [checkout EXCEPT !.pc = "failed", !.undo = <<>>,
                                            !.why = "unavailable"]
  /\ UNCHANGED <<base, ppc, pdoc, preq>>
  /\ UNCHANGED <<orderVars, couponVars, cartVars, calc, getCartVars>>

\* coupon.useCoupon(user) when the cart holds a coupon; a throw aborts
CheckoutUsage ==
  /\ checkout.pc = "usage"
  /\ IF cart.couponCode = NoCode
     THEN /\ checkout' = [checkout EXCEPT !.pc = "clear"]
          /\ UNCHANGED <<stock, coupon, usages>>
     ELSE LET fact == usageFact(coupon, "u1", now) IN
          IF usageValid(fact)
          THEN /\ coupon' = [coupon EXCEPT !.usedCount = @ + 1]
               /\ usages' = Append(usages, fact)
               /\ checkout' = [checkout EXCEPT !.pc = "clear"]
               /\ UNCHANGED stock
          ELSE /\ stock' = abortedStock(stock, checkout.undo)
               /\ checkout' = [checkout EXCEPT !.pc = "failed", !.undo = <<>>,
                                               !.why = "usage"]
               /\ UNCHANGED <<coupon, usages>>
  /\ UNCHANGED <<base, ppc, pdoc, preq>>
  /\ UNCHANGED <<orders, now, cdoc, cpc, cuser, cres>>
  /\ UNCHANGED <<orderVars, cartVars, calc, getCartVars>>

\* cart.clearCart(): the order is placed
CheckoutClear ==
  /\ checkout.pc = "clear"
  /\ cart' = cartPreSave(clearCartDoc(cart).cart)
  /\ checkout' = [checkout EXCEPT !.pc = "placed", !.undo = <<>>]
  /\ UNCHANGED <<price, cartOp>>
  /\ UNCHANGED <<stockVars, orderVars, couponVars, calc, getCartVars>>

\* the checkout request has answered
EndCheckout ==
  /\ checkout.pc \in {"placed", "failed"}
  /\ checkout' = NoCheckout
  /\ UNCHANGED <<stockVars, orderVars, couponVars, cartVars, calc, getCartVars>>

\* between checkouts the customer fills the cart
ShopAddItem == checkout.pc = "idle" /\ AddItem
ShopApplyCoupon == checkout.pc = "idle" /\ ApplyCoupon

\* between checkouts another request's updateStock changes the stock
OtherUpdateStock ==
  /\ checkout.pc = "idle"
  /\ \E v \in Variants, d \in ((0 - MaxQty)..MaxQty) \ {0} :
       LET doc == updateStockDoc(stock, v, d) IN
       /\ doc[v] <= MaxStock
       /\ stockValid(doc[v])
       /\ stock' = doc
  /\ UNCHANGED <<base, ppc, pdoc, preq>>
  /\ UNCHANGED <<orderVars, couponVars, cartVars, checkout, calc, getCartVars>>

CheckoutNext ==
  \/ ShopAddItem
  \/ ShopApplyCoupon
  \/ OtherUpdateStock
  \/ BeginCheckout
  \/ CheckoutLine
  \/ CheckoutUsage
  \/ CheckoutClear
  \/ EndCheckout

-----------------------------------------------------------------------------
(***************************************************************************)
(* Methods that only compute.  A step calls one of them, once, on a        *)
(* document and arguments drawn from small sets and keeps the inputs and   *)
(* the answer.                                                             *)
(* Amounts and percentages are drawn so that every percentage is whole.    *)
(***************************************************************************)
Totals == {0, 50, 100, 200, 300, 2000}
DiscountValues == {10, 50, 150}
MaxDiscounts == {Null, 0, 100}
MinOrders == {0, 200}

\* the coupons the methods are called on
CouponDocs ==
  {[FreshCoupon EXCEPT !.discountType = ty, !.discountValue = dv,
                       !.maxDiscount = md, !.minOrderAmount = mo,
                       !.isActive = active, !.usageLimit = limit,
                       !.usedCount = used] :
     ty \in {"percentage", "fixed"}, dv \in DiscountValues, md \in MaxDiscounts,
     mo \in MinOrders, active \in BOOLEAN,
     limit \in {Null} \cup 1..MaxLimit, used \in 0..MaxLimit}

OtherThanCalc == <<stockVars, orderVars, couponVars, cartVars, checkout, getCartVars>>

\* coupon.calculateDiscount(cartTotal)
CalculateDiscount ==
  /\ calc = NoCalc
  /\ \E c \in CouponDocs, t \in 0..MaxTime, total \in Totals :
       calc' = [fn |-> "calculateDiscount", coupon |-> c, now |-> t,
                cartTotal |-> total, out |-> calculateDiscount(c, t, total)]
  /\ UNCHANGED OtherThanCalc

\* the evaluator's validate(code, customer, subtotal): the coupon is looked
\* up, then asked canUserUseCoupon, then calculateDiscount's two guards
validate(found, c, t, orderCount, userUsageCount, subtotal) ==
  IF ~found THEN [eligible |-> FALSE, reason |-> "Coupon not found"]
  ELSE LET can == canUserUseCoupon(c, t, orderCount, userUsageCount)
           amount == calculateDiscount(c, t, subtotal) IN
       IF ~can.canUse THEN [eligible |-> FALSE, reason |-> can.reason]
       ELSE IF ~amount.ok THEN [eligible |-> FALSE, reason |-> amount.error]
       ELSE [eligible |-> TRUE, reason |-> ""]

\* the coupons validate is called on
ValidateDocs ==
  {[FreshCoupon EXCEPT !.minOrderAmount = mo, !.isActive = active,
                       !.usageLimit = limit, !.usedCount = used,
                       !.isFirstOrderOnly = first, !.userUsageLimit = userLimit] :
     mo \in MinOrders, active \in BOOLEAN, limit \in {Null} \cup 1..MaxLimit,
     used \in 0..MaxLimit, first \in BOOLEAN, userLimit \in 1..MaxLimit}

Validate ==
  /\ calc = NoCalc
  /\ \E found \in BOOLEAN, c \in ValidateDocs, t \in 0..MaxTime,
        orderCount \in 0..MaxOrders, userUsageCount \in 0..MaxLimit,
        subtotal \in Totals :
       calc' = [fn |-> "validate", found |-> found, coupon |-> c, now |-> t,
                orderCount |-> orderCount, userUsageCount |-> userUsageCount,
                subtotal |-> subtotal,
                out |-> validate(found, c, t, orderCount, userUsageCount,
                                 subtotal)]
  /\ UNCHANGED OtherThanCalc

\* orderSummary.totalAmount and orderSummary.deliveryCharge of the orders
OrderTotals == {0, 29, 129, 279, 300}
OrderCharges == {0, 29}

\* order.calculateRefundAmount()
CalculateRefundAmount ==
  /\ calc = NoCalc
  /\ \E method \in PaymentMethods, status \in Statuses,
        total \in OrderTotals, charge \in OrderCharges :
       calc' = [fn |-> "calculateRefundAmount", method |-> method,
                status |-> status, totalAmount |-> total,
                deliveryCharge |-> charge,
                out |-> calculateRefundAmount(method, status, total, charge)]
  /\ UNCHANGED OtherThanCalc

\* a product's variants, as their isDefault flags in array order
MaxVariants == 3
FlagLists == UNION {[1..n -> BOOLEAN] : n \in 0..MaxVariants}

\* productSchema.pre('save'), the default variant: the first variant is
\* flagged when there are variants and none of them is flagged
productPreSave(isDefault) ==
  IF Len(isDefault) > 0
  THEN LET hasDefault == \E i \in 1..Len(isDefault) : isDefault[i] IN
       IF ~hasDefault THEN [isDefault EXCEPT ![1] = TRUE] ELSE isDefault
  ELSE isDefault

\* save() of a product whose variants carry any flags
ProductSave ==
  /\ calc = NoCalc
  /\ \E flags \in FlagLists :
       calc' = [fn |-> "product save", isDefault |-> flags,
                out |-> productPreSave(flags)]
  /\ UNCHANGED OtherThanCalc

\* Date.now() in decimal digits, thirteen of them: two instants one
\* millisecond apart and a third 10^8 ms (about 28 hours) after the first
Instants ==
  { <<1, 7, 6, 2, 0, 7, 6, 9, 0, 0, 0, 0, 0>>,
    <<1, 7, 6, 2, 0, 7, 6, 9, 0, 0, 0, 0, 1>>,
    <<1, 7, 6, 2, 1, 7, 6, 9, 0, 0, 0, 0, 0>> }

\* Math.floor(Math.random() * 1000) is one of 0..999
Randoms == {0, 42, 999}

\* String.prototype.slice(-n)
sliceLast(str, n) ==
  IF Len(str) <= n THEN str ELSE SubSeq(str, Len(str) - n + 1, Len(str))

\* n.toString().padStart(3, '0') for n in 0..999
padStart3(n) == <<n \div 100, (n \div 10) % 10, n % 10>>

\* `RR${Date.now().toString().slice(-8)}${suffix.toString().padStart(3, '0')}`
orderNumberOf(instant, random) ==
  <<"R", "R">> \o sliceLast(instant, 8) \o padStart3(random)

\* two orders are created, each at its instant with its random draw; the
\* second insert meets the unique index on orderNumber
CreateTwoOrders ==
  /\ calc = NoCalc
  /\ \E t1 \in Instants, t2 \in Instants, r1 \in Randoms, r2 \in Randoms :
       LET n1 == orderNumberOf(t1, r1)
           n2 == orderNumberOf(t2, r2) IN
       calc' = [fn |-> "create two orders",
                at |-> <<t1, t2>>, random |-> <<r1, r2>>,
                out |-> <<n1, n2>>,
                second |-> IF n1 = n2 THEN "E11000 duplicate key" ELSE "ok"]
  /\ UNCHANGED OtherThanCalc

CalcNext ==
  \/ CalculateDiscount
  \/ Validate
  \/ CalculateRefundAmount
  \/ ProductSave
  \/ CreateTwoOrders

-----------------------------------------------------------------------------
(***************************************************************************)
(* Cart.getCartByUser: findOne({ user }), and create({ user }) when it     *)
(* found nothing.  Two requests may both look before either creates.  The  *)
(* collection has a unique index on user.                                  *)
(***************************************************************************)
MaxCarts == 3

NoGetCart == [pc |-> "idle", user |-> "u1", result |-> "none"]

\* this.findOne({ user: userId })
hasCart(docs, u) == \E i \in 1..Len(docs) : docs[i].user = u

\* an insert into a collection without the unique index
insertCart_noIndex(docs, u) ==
  [ok |-> TRUE, docs |-> Append(docs, [user |-> u])]

\* an insert into the collection: user is unique: true
insertCart(docs, u) ==
  IF hasCart(docs, u) THEN [ok |-> FALSE, docs |-> docs]
  ELSE [ok |-> TRUE, docs |-> Append(docs, [user |-> u])]

\* let cart = await this.findOne({ user: userId })
GetCartFind(p) ==
  /\ gcall[p].pc = "idle"
  /\ \E u \in Users :
       gcall' = [gcall EXCEPT ![p] =
                   [pc |-> IF hasCart(carts, u) THEN "found" ELSE "missing",
                    user |-> u, result |-> "none"]]
  /\ UNCHANGED carts
  /\ UNCHANGED <<stockVars, orderVars, couponVars, cartVars, checkout, calc>>

\* if (!cart) cart = await this.create({ user: userId })
GetCartCreate(p) ==
  /\ gcall[p].pc = "missing"
  /\ Len(carts) < MaxCarts
  /\ LET r == insertCart(carts, gcall[p].user) IN
       /\ carts' = r.docs
       /\ gcall' = [gcall EXCEPT ![p].pc = "done",
                                 ![p].result = IF r.ok THEN "created"
                                               ELSE "E11000 duplicate key"]
  /\ UNCHANGED <<stockVars, orderVars, couponVars, cartVars, checkout, calc>>

\* return cart
GetCartReturn(p) ==
  /\ gcall[p].pc \in {"found", "done"}
  /\ gcall' = [gcall EXCEPT ![p] = NoGetCart]
  /\ UNCHANGED carts
  /\ UNCHANGED <<stockVars, orderVars, couponVars, cartVars, checkout, calc>>

GetCartNext ==
  \/ \E p \in Procs : GetCartFind(p)
  \/ \E p \in Procs : GetCartCreate(p)
  \/ \E p \in Procs : GetCartReturn(p)

-----------------------------------------------------------------------------
(***************************************************************************)
(* The tracking timestamps.  updateStatus takes new Date() when it pushes  *)
(* the entry on the request's document and then returns this.save(): the   *)
(* write reaches the stored order later, after the writes of whichever     *)
(* requests got there first.  The clock, now, never goes backwards.        *)
(***************************************************************************)
OtherThanClock ==
  <<stockVars, cartVars, checkout, calc, getCartVars,
    coupon, usages, orders, cdoc, cpc, cuser, cres>>

\* this.tracking.push({ status, timestamp: new Date(), note })
pushTrackingAt(pushed, s, note, t) ==
  Append(pushed, [status |-> s, note |-> note, timestamp |-> t])

\* time passes
Tick ==
  /\ now < MaxTime
  /\ now' = now + 1
  /\ UNCHANGED orderVars
  /\ UNCHANGED OtherThanClock

\* Math.random() is k / Grain for one of these k
Grain == 1000
Draws == {0, 1, Grain - 1}

\* n.toString() for n of four digits
toString4(n) == <<n \div 1000, (n \div 100) % 10, (n \div 10) % 10, n % 10>>

\* deliveryOTP: undefined
NoOtp == <<>>

\* a hook that issues the OTP whatever the payment method
deliveryOTPFor_always(method, k) ==
  toString4(1000 + (k * 9000) \div Grain)

\* if (method === 'cod') deliveryOTP = Math.floor(1000 + Math.random() * 9000)
\*                                       .toString()
deliveryOTPFor(method, k) ==
  IF method = "cod" THEN toString4(1000 + (k * 9000) \div Grain) ELSE NoOtp

\* Order.create with the default status: pre('save') pushes the first entry
\* and issues the delivery OTP
PlaceOrder ==
  /\ ~ord.exists
  /\ \E method \in PaymentMethods, k \in Draws :
       ord' = [exists |-> TRUE, status |-> "pending",
               tracking |-> pushTrackingAt(<<>>, "pending",
                                           "Order placed successfully", now),
               actualDeliveryTime |-> FALSE, deliveryPartner |-> NoPartner,
               paymentMethod |-> method,
               deliveryOTP |-> deliveryOTPFor(method, k)]
  /\ ohist' = <<[status |-> "pending", ver |-> 0]>>
  /\ UNCHANGED <<odoc, over, olast, now>>
  /\ UNCHANGED OtherThanClock

\* Order.findById by a request with no save under way
FindOrder(p) ==
  /\ ord.exists
  /\ odoc[p].pushed = <<>>
  /\ odoc[p] # loaded(ord) \/ over[p] # Len(ohist)
  /\ odoc' = [odoc EXCEPT ![p] = loaded(ord)]
  /\ over' = [over EXCEPT ![p] = Len(ohist)]
  /\ UNCHANGED <<ord, olast, ohist, now>>
  /\ UNCHANGED OtherThanClock

\* updateStatus up to `return this.save()`: the checks, the assignments and
\* the push, on the request's document
UpdateStatusStamp(p) ==
  /\ odoc[p].exists
  /\ odoc[p].pushed = <<>>
  /\ \E newStatus \in Statuses :
       LET doc == odoc[p] IN
       IF doc.status = newStatus
       THEN \* return Promise.resolve(this)
            UNCHANGED odoc
       ELSE IF newStatus \notin validTransitions(doc.status)
       THEN \* throw new Error(`Cannot change status from ... to ...`)
            UNCHANGED odoc
       ELSE odoc' = [odoc EXCEPT ![p] =
              [doc EXCEPT
                 !.status = newStatus,
                 !.pushed = pushTrackingAt(@, newStatus,
                              getStatusMessage(newStatus), now),
                 !.actualDeliveryTime =
                    IF newStatus = "delivered" THEN TRUE ELSE @]]
  /\ UNCHANGED <<ord, over, olast, ohist, now>>
  /\ UNCHANGED OtherThanClock

\* the save() of that updateStatus reaches the stored order
UpdateStatusSave(p) ==
  /\ odoc[p].pushed # <<>>
  /\ Len(ord.tracking) < MaxTrack
  /\ ord' = saveOrder(ord, odoc[p])
  /\ odoc' = [odoc EXCEPT ![p] = saved(odoc[p])]
  /\ ohist' = Append(ohist, [status |-> odoc[p].status, ver |-> over[p]])
  /\ over' = [over EXCEPT ![p] = Len(ohist) + 1]
  /\ UNCHANGED <<olast, now>>
  /\ UNCHANGED OtherThanClock

\* an order paid online, as placed at time 0
PlacedOrder ==
  [exists |-> TRUE, status |-> "pending",
   tracking |-> pushTrackingAt(<<>>, "pending", "Order placed successfully", 0),
   actualDeliveryTime |-> FALSE, deliveryPartner |-> NoPartner,
   paymentMethod |-> "online", deliveryOTP |-> NoOtp]

\* requests on an order from its creation, the clock standing still
OtpNext ==
  \/ PlaceOrder
  \/ \E p \in Procs : FindOrder(p)
  \/ \E p \in Procs : UpdateStatusStamp(p)
  \/ \E p \in Procs : UpdateStatusSave(p)

\* two requests on an order already placed, while time passes
ClockNext ==
  \/ Tick
  \/ \E p \in Procs : FindOrder(p)
  \/ \E p \in Procs : UpdateStatusStamp(p)
  \/ \E p \in Procs : UpdateStatusSave(p)

-----------------------------------------------------------------------------
(***************************************************************************)
(* Specifications: one per part of the core, the others left at rest.      *)
(***************************************************************************)
InitStock ==
  /\ stock \in [Variants -> 0..MaxStock]
  /\ base = stock
  /\ ppc = [p \in Procs |-> "idle"]
  /\ pdoc = [p \in Procs |-> NoDoc]
  /\ preq = [p \in Procs |-> NoReq]
  /\ ord = NoOrder
  /\ odoc = [p \in Procs |-> NoOrderDoc]
  /\ over = [p \in Procs |-> 0]
  /\ olast = NoCall
  /\ ohist = <<>>
  /\ coupon = FreshCoupon
  /\ usages = <<>>
  /\ orders = [u \in Users |-> 0]
  /\ now = 1
  /\ cdoc = [p \in Procs |-> FreshCoupon]
  /\ cpc = [p \in Procs |-> "idle"]
  /\ cuser = [p \in Procs |-> "u1"]
  /\ cres = [p \in Procs |-> NoAnswer]
  /\ price = ListPrice
  /\ cart = EmptyCart
  /\ cartOp = NoCartOp
  /\ checkout = NoCheckout
  /\ calc = NoCalc
  /\ carts = <<>>
  /\ gcall = [p \in Procs |-> NoGetCart]

SpecStock == InitStock /\ [][StockNext]_vars

InitOrder ==
  /\ stock = [v \in Variants |-> 0]
  /\ base = stock
  /\ ppc = [p \in Procs |-> "idle"]
  /\ pdoc = [p \in Procs |-> NoDoc]
  /\ preq = [p \in Procs |-> NoReq]
  /\ ord = NoOrder
  /\ odoc = [p \in Procs |-> NoOrderDoc]
  /\ over = [p \in Procs |-> 0]
  /\ olast = NoCall
  /\ ohist = <<>>
  /\ coupon = FreshCoupon
  /\ usages = <<>>
  /\ orders = [u \in Users |-> 0]
  /\ now = 1
  /\ cdoc = [p \in Procs |-> FreshCoupon]
  /\ cpc = [p \in Procs |-> "idle"]
  /\ cuser = [p \in Procs |-> "u1"]
  /\ cres = [p \in Procs |-> NoAnswer]
  /\ price = ListPrice
  /\ cart = EmptyCart
  /\ cartOp = NoCartOp
  /\ checkout = NoCheckout
  /\ calc = NoCalc
  /\ carts = <<>>
  /\ gcall = [p \in Procs |-> NoGetCart]

SpecOrder == InitOrder /\ [][OrderNext]_vars

InitCoupon ==
  /\ stock = [v \in Variants |-> 0]
  /\ base = stock
  /\ ppc = [p \in Procs |-> "idle"]
  /\ pdoc = [p \in Procs |-> NoDoc]
  /\ preq = [p \in Procs |-> NoReq]
  /\ ord = NoOrder
  /\ odoc = [p \in Procs |-> NoOrderDoc]
  /\ over = [p \in Procs |-> 0]
  /\ olast = NoCall
  /\ ohist = <<>>
  /\ \E active \in BOOLEAN, first \in BOOLEAN,
        limit \in {Null} \cup 1..MaxLimit, userLimit \in 1..MaxLimit :
       coupon = [FreshCoupon EXCEPT !.isActive = active,
                                    !.isFirstOrderOnly = first,
                                    !.usageLimit = limit,
                                    !.userUsageLimit = userLimit]
  /\ usages = <<>>
  /\ orders \in [Users -> 0..MaxOrders]
  /\ now \in 0..MaxTime
  /\ cdoc = [p \in Procs |-> FreshCoupon]
  /\ cpc = [p \in Procs |-> "idle"]
  /\ cuser = [p \in Procs |-> "u1"]
  /\ cres = [p \in Procs |-> NoAnswer]
  /\ price = ListPrice
  /\ cart = EmptyCart
  /\ cartOp = NoCartOp
  /\ checkout = NoCheckout
  /\ calc = NoCalc
  /\ carts = <<>>
  /\ gcall = [p \in Procs |-> NoGetCart]

SpecCoupon == InitCoupon /\ [][CouponNext]_vars

InitCart ==
  /\ stock \in [Variants -> 0..MaxStock]
  /\ base = stock
  /\ ppc = [p \in Procs |-> "idle"]
  /\ pdoc = [p \in Procs |-> NoDoc]
  /\ preq = [p \in Procs |-> NoReq]
  /\ ord = NoOrder
  /\ odoc = [p \in Procs |-> NoOrderDoc]
  /\ over = [p \in Procs |-> 0]
  /\ olast = NoCall
  /\ ohist = <<>>
  /\ \E c \in {Flat50, Half100, Flat150}, active \in BOOLEAN :
       coupon = [c EXCEPT !.isActive = active]
  /\ usages = <<>>
  /\ orders = [u \in Users |-> 0]
  /\ now \in 0..MaxTime
  /\ cdoc = [p \in Procs |-> FreshCoupon]
  /\ cpc = [p \in Procs |-> "idle"]
  /\ cuser = [p \in Procs |-> "u1"]
  /\ cres = [p \in Procs |-> NoAnswer]
  /\ price = ListPrice
  /\ cart = EmptyCart
  /\ cartOp = NoCartOp
  /\ checkout = NoCheckout
  /\ calc = NoCalc
  /\ carts = <<>>
  /\ gcall = [p \in Procs |-> NoGetCart]

SpecCart == InitCart /\ [][CartNext]_vars

InitCheckout ==
  /\ stock \in [Variants -> 0..MaxStock]
  /\ base = stock
  /\ ppc = [p \in Procs |-> "idle"]
  /\ pdoc = [p \in Procs |-> NoDoc]
  /\ preq = [p \in Procs |-> NoReq]
  /\ ord = NoOrder
  /\ odoc = [p \in Procs |-> NoOrderDoc]
  /\ over = [p \in Procs |-> 0]
  /\ olast = NoCall
  /\ ohist = <<>>
  /\ coupon = Half100
  /\ usages = <<>>
  /\ orders = [u \in Users |-> 0]
  /\ now = 1
  /\ cdoc = [p \in Procs |-> FreshCoupon]
  /\ cpc = [p \in Procs |-> "idle"]
  /\ cuser = [p \in Procs |-> "u1"]
  /\ cres = [p \in Procs |-> NoAnswer]
  /\ price = ListPrice
  /\ cart = EmptyCart
  /\ cartOp = NoCartOp
  /\ checkout = NoCheckout
  /\ calc = NoCalc
  /\ carts = <<>>
  /\ gcall = [p \in Procs |-> NoGetCart]

SpecCheckout == InitCheckout /\ [][CheckoutNext]_vars

\* a customer's cart in front of coupons in every state of use: capped or
\* not, used or not, first-order-only or not
CartCouponNext ==
  \/ AddItem
  \/ ApplyCoupon

InitCartCoupon ==
  /\ stock = [v \in Variants |-> 1]
  /\ base = stock
  /\ ppc = [p \in Procs |-> "idle"]
  /\ pdoc = [p \in Procs |-> NoDoc]
  /\ preq = [p \in Procs |-> NoReq]
  /\ ord = NoOrder
  /\ odoc = [p \in Procs |-> NoOrderDoc]
  /\ over = [p \in Procs |-> 0]
  /\ olast = NoCall
  /\ ohist = <<>>
  /\ \E first \in BOOLEAN, limit \in {Null} \cup 1..MaxLimit,
        used \in 0..MaxLimit :
       coupon = [Flat150 EXCEPT !.isFirstOrderOnly = first,
                                !.usageLimit = limit, !.usedCount = used]
  /\ \E n \in 0..1 :
       usages = [i \in 1..n |-> [coupon |-> "FLAT150", user |-> "u1",
                                 usedAt |-> 0, discountAmount |-> 150]]
  /\ \E n \in 0..MaxOrders :
       orders = [u \in Users |-> IF u = "u1" THEN n ELSE 0]
  /\ now = 1
  /\ cdoc = [p \in Procs |-> FreshCoupon]
  /\ cpc = [p \in Procs |-> "idle"]
  /\ cuser = [p \in Procs |-> "u1"]
  /\ cres = [p \in Procs |-> NoAnswer]
  /\ price = ListPrice
  /\ cart = EmptyCart
  /\ cartOp = NoCartOp
  /\ checkout = NoCheckout
  /\ calc = NoCalc
  /\ carts = <<>>
  /\ gcall = [p \in Procs |-> NoGetCart]

SpecCartCoupon == InitCartCoupon /\ [][CartCouponNext]_vars

\* a cart in front of a stock one unit above what a single call can ask for
CartMergeNext ==
  \/ AddItem
  \/ UpdateItemQuantity
  \/ RemoveItem

InitCartMerge ==
  /\ stock = [v \in Variants |-> MaxQty + 1]
  /\ base = stock
  /\ ppc = [p \in Procs |-> "idle"]
  /\ pdoc = [p \in Procs |-> NoDoc]
  /\ preq = [p \in Procs |-> NoReq]
  /\ ord = NoOrder
  /\ odoc = [p \in Procs |-> NoOrderDoc]
  /\ over = [p \in Procs |-> 0]
  /\ olast = NoCall
  /\ ohist = <<>>
  /\ coupon = FreshCoupon
  /\ usages = <<>>
  /\ orders = [u \in Users |-> 0]
  /\ now = 1
  /\ cdoc = [p \in Procs |-> FreshCoupon]
  /\ cpc = [p \in Procs |-> "idle"]
  /\ cuser = [p \in Procs |-> "u1"]
  /\ cres = [p \in Procs |-> NoAnswer]
  /\ price = ListPrice
  /\ cart = EmptyCart
  /\ cartOp = NoCartOp
  /\ checkout = NoCheckout
  /\ calc = NoCalc
  /\ carts = <<>>
  /\ gcall = [p \in Procs |-> NoGetCart]

SpecCartMerge == InitCartMerge /\ [][CartMergeNext]_vars

\* a cart that requests reach through getCartByUser
CartPopulatedNext ==
  \/ GetCartAddItem
  \/ GetCartUpdateItemQuantity
  \/ GetCartRemoveItem
  \/ ClearCart

InitCartPopulated ==
  /\ stock = [v \in Variants |-> MaxQty + 1]
  /\ base = stock
  /\ ppc = [p \in Procs |-> "idle"]
  /\ pdoc = [p \in Procs |-> NoDoc]
  /\ preq = [p \in Procs |-> NoReq]
  /\ ord = NoOrder
  /\ odoc = [p \in Procs |-> NoOrderDoc]
  /\ over = [p \in Procs |-> 0]
  /\ olast = NoCall
  /\ ohist = <<>>
  /\ coupon = FreshCoupon
  /\ usages = <<>>
  /\ orders = [u \in Users |-> 0]
  /\ now = 1
  /\ cdoc = [p \in Procs |-> FreshCoupon]
  /\ cpc = [p \in Procs |-> "idle"]
  /\ cuser = [p \in Procs |-> "u1"]
  /\ cres = [p \in Procs |-> NoAnswer]
  /\ price = ListPrice
  /\ cart = EmptyCart
  /\ cartOp = NoCartOp
  /\ checkout = NoCheckout
  /\ calc = NoCalc
  /\ carts = <<>>
  /\ gcall = [p \in Procs |-> NoGetCart]

SpecCartPopulated == InitCartPopulated /\ [][CartPopulatedNext]_vars

\* a cart that is edited after a coupon was applied to it
CartStaleNext ==
  \/ AddItem
  \/ UpdateItemQuantity
  \/ RemoveItem
  \/ ApplyCoupon

InitCartStale ==
  /\ stock = [v \in Variants |-> MaxStock]
  /\ base = stock
  /\ ppc = [p \in Procs |-> "idle"]
  /\ pdoc = [p \in Procs |-> NoDoc]
  /\ preq = [p \in Procs |-> NoReq]
  /\ ord = NoOrder
  /\ odoc = [p \in Procs |-> NoOrderDoc]
  /\ over = [p \in Procs |-> 0]
  /\ olast = NoCall
  /\ ohist = <<>>
  /\ coupon \in {Tenth, Half100}
  /\ usages = <<>>
  /\ orders = [u \in Users |-> 0]
  /\ now = 1
  /\ cdoc = [p \in Procs |-> FreshCoupon]
  /\ cpc = [p \in Procs |-> "idle"]
  /\ cuser = [p \in Procs |-> "u1"]
  /\ cres = [p \in Procs |-> NoAnswer]
  /\ price = ListPrice
  /\ cart = EmptyCart
  /\ cartOp = NoCartOp
  /\ checkout = NoCheckout
  /\ calc = NoCalc
  /\ carts = <<>>
  /\ gcall = [p \in Procs |-> NoGetCart]

SpecCartStale == InitCartStale /\ [][CartStaleNext]_vars

\* carts with a coupon applied, and the refunds of the orders made of them
CartRefundNext ==
  \/ AddItem
  \/ ApplyCoupon
  \/ RefundOfCartOrder

InitCartRefund ==
  /\ stock = [v \in Variants |-> 1]
  /\ base = stock
  /\ ppc = [p \in Procs |-> "idle"]
  /\ pdoc = [p \in Procs |-> NoDoc]
  /\ preq = [p \in Procs |-> NoReq]
  /\ ord = NoOrder
  /\ odoc = [p \in Procs |-> NoOrderDoc]
  /\ over = [p \in Procs |-> 0]
  /\ olast = NoCall
  /\ ohist = <<>>
  /\ coupon \in {Flat50, Half100, Flat150}
  /\ usages = <<>>
  /\ orders = [u \in Users |-> 0]
  /\ now = 1
  /\ cdoc = [p \in Procs |-> FreshCoupon]
  /\ cpc = [p \in Procs |-> "idle"]
  /\ cuser = [p \in Procs |-> "u1"]
  /\ cres = [p \in Procs |-> NoAnswer]
  /\ price = ListPrice
  /\ cart = EmptyCart
  /\ cartOp = NoCartOp
  /\ checkout = NoCheckout
  /\ calc = NoCalc
  /\ carts = <<>>
  /\ gcall = [p \in Procs |-> NoGetCart]

SpecCartRefund == InitCartRefund /\ [][CartRefundNext]_vars

\* a cart in front of a catalogue whose prices are revised now and then
CartPriceNext ==
  \/ AddItem
  \/ UpdateItemQuantity
  \/ ChangePrice

InitCartPrice ==
  /\ stock = [v \in Variants |-> MaxQty]
  /\ base = stock
  /\ ppc = [p \in Procs |-> "idle"]
  /\ pdoc = [p \in Procs |-> NoDoc]
  /\ preq = [p \in Procs |-> NoReq]
  /\ ord = NoOrder
  /\ odoc = [p \in Procs |-> NoOrderDoc]
  /\ over = [p \in Procs |-> 0]
  /\ olast = NoCall
  /\ ohist = <<>>
  /\ coupon = FreshCoupon
  /\ usages = <<>>
  /\ orders = [u \in Users |-> 0]
  /\ now = 1
  /\ cdoc = [p \in Procs |-> FreshCoupon]
  /\ cpc = [p \in Procs |-> "idle"]
  /\ cuser = [p \in Procs |-> "u1"]
  /\ cres = [p \in Procs |-> NoAnswer]
  /\ price = ListPrice
  /\ cart = EmptyCart
  /\ cartOp = NoCartOp
  /\ checkout = NoCheckout
  /\ calc = NoCalc
  /\ carts = <<>>
  /\ gcall = [p \in Procs |-> NoGetCart]

SpecCartPrice == InitCartPrice /\ [][CartPriceNext]_vars

\* updateItemQuantity or addItem on a cart of one or two lines whose variants
\* are in stock, sold out, or no longer among the product's variants
CartUpdateNext ==
  \/ UpdateItemQuantityCall
  \/ AddItemCall

InitCartUpdate ==
  /\ \E D \in SUBSET Variants : stock \in [D -> 0..MaxStock]
  /\ base = stock
  /\ ppc = [p \in Procs |-> "idle"]
  /\ pdoc = [p \in Procs |-> NoDoc]
  /\ preq = [p \in Procs |-> NoReq]
  /\ ord = NoOrder
  /\ odoc = [p \in Procs |-> NoOrderDoc]
  /\ over = [p \in Procs |-> 0]
  /\ olast = NoCall
  /\ ohist = <<>>
  /\ coupon = FreshCoupon
  /\ usages = <<>>
  /\ orders = [u \in Users |-> 0]
  /\ now = 1
  /\ cdoc = [p \in Procs |-> FreshCoupon]
  /\ cpc = [p \in Procs |-> "idle"]
  /\ cuser = [p \in Procs |-> "u1"]
  /\ cres = [p \in Procs |-> NoAnswer]
  /\ price = ListPrice
  /\ \E n \in 1..2, vs \in [1..2 -> Variants], qs \in [1..2 -> 1..MaxQty] :
       /\ vs[1] # vs[2]
       /\ cart = cartPreSave(
                   [EmptyCart EXCEPT !.items =
                      [i \in 1..n |-> [product |-> "p1", variant |-> vs[i],
                                       quantity |-> qs[i],
                                       price |-> ListPrice[vs[i]]]]])
  /\ cartOp = NoCartOp
  /\ checkout = NoCheckout
  /\ calc = NoCalc
  /\ carts = <<>>
  /\ gcall = [p \in Procs |-> NoGetCart]

SpecCartUpdate == InitCartUpdate /\ [][CartUpdateNext]_vars

\* one request that changes an order's status and asks for the refund
RefundNext ==
  \/ CreateOrder
  \/ LoadOrder("r1")
  \/ UpdateStatus("r1")
  \/ CalculateRefundAmountOf("r1")

InitRefund ==
  /\ stock = [v \in Variants |-> 0]
  /\ base = stock
  /\ ppc = [p \in Procs |-> "idle"]
  /\ pdoc = [p \in Procs |-> NoDoc]
  /\ preq = [p \in Procs |-> NoReq]
  /\ ord = NoOrder
  /\ odoc = [p \in Procs |-> NoOrderDoc]
  /\ over = [p \in Procs |-> 0]
  /\ olast = NoCall
  /\ ohist = <<>>
  /\ coupon = FreshCoupon
  /\ usages = <<>>
  /\ orders = [u \in Users |-> 0]
  /\ now = 1
  /\ cdoc = [p \in Procs |-> FreshCoupon]
  /\ cpc = [p \in Procs |-> "idle"]
  /\ cuser = [p \in Procs |-> "u1"]
  /\ cres = [p \in Procs |-> NoAnswer]
  /\ price = ListPrice
  /\ cart = EmptyCart
  /\ cartOp = NoCartOp
  /\ checkout = NoCheckout
  /\ calc = NoCalc
  /\ carts = <<>>
  /\ gcall = [p \in Procs |-> NoGetCart]

SpecRefund == InitRefund /\ [][RefundNext]_vars

\* one request that changes an order's status and assigns delivery partners
AssignNext ==
  \/ CreateOrder
  \/ LoadOrder("r1")
  \/ UpdateStatus("r1")
  \/ AssignDeliveryPartner("r1")

InitAssign ==
  /\ stock = [v \in Variants |-> 0]
  /\ base = stock
  /\ ppc = [p \in Procs |-> "idle"]
  /\ pdoc = [p \in Procs |-> NoDoc]
  /\ preq = [p \in Procs |-> NoReq]
  /\ ord = NoOrder
  /\ odoc = [p \in Procs |-> NoOrderDoc]
  /\ over = [p \in Procs |-> 0]
  /\ olast = NoCall
  /\ ohist = <<>>
  /\ coupon = FreshCoupon
  /\ usages = <<>>
  /\ orders = [u \in Users |-> 0]
  /\ now = 1
  /\ cdoc = [p \in Procs |-> FreshCoupon]
  /\ cpc = [p \in Procs |-> "idle"]
  /\ cuser = [p \in Procs |-> "u1"]
  /\ cres = [p \in Procs |-> NoAnswer]
  /\ price = ListPrice
  /\ cart = EmptyCart
  /\ cartOp = NoCartOp
  /\ checkout = NoCheckout
  /\ calc = NoCalc
  /\ carts = <<>>
  /\ gcall = [p \in Procs |-> NoGetCart]

SpecAssign == InitAssign /\ [][AssignNext]_vars

InitClock ==
  /\ stock = [v \in Variants |-> 0]
  /\ base = stock
  /\ ppc = [p \in Procs |-> "idle"]
  /\ pdoc = [p \in Procs |-> NoDoc]
  /\ preq = [p \in Procs |-> NoReq]
  /\ ord = PlacedOrder
  /\ odoc = [p \in Procs |-> NoOrderDoc]
  /\ over = [p \in Procs |-> 0]
  /\ olast = NoCall
  /\ ohist = <<[status |-> "pending", ver |-> 0]>>
  /\ coupon = FreshCoupon
  /\ usages = <<>>
  /\ orders = [u \in Users |-> 0]
  /\ now = 0
  /\ cdoc = [p \in Procs |-> FreshCoupon]
  /\ cpc = [p \in Procs |-> "idle"]
  /\ cuser = [p \in Procs |-> "u1"]
  /\ cres = [p \in Procs |-> NoAnswer]
  /\ price = ListPrice
  /\ cart = EmptyCart
  /\ cartOp = NoCartOp
  /\ checkout = NoCheckout
  /\ calc = NoCalc
  /\ carts = <<>>
  /\ gcall = [p \in Procs |-> NoGetCart]

SpecClock == InitClock /\ [][ClockNext]_vars

InitOtp ==
  /\ stock = [v \in Variants |-> 0]
  /\ base = stock
  /\ ppc = [p \in Procs |-> "idle"]
  /\ pdoc = [p \in Procs |-> NoDoc]
  /\ preq = [p \in Procs |-> NoReq]
  /\ ord = NoOrder
  /\ odoc = [p \in Procs |-> NoOrderDoc]
  /\ over = [p \in Procs |-> 0]
  /\ olast = NoCall
  /\ ohist = <<>>
  /\ coupon = FreshCoupon
  /\ usages = <<>>
  /\ orders = [u \in Users |-> 0]
  /\ now = 0
  /\ cdoc = [p \in Procs |-> FreshCoupon]
  /\ cpc = [p \in Procs |-> "idle"]
  /\ cuser = [p \in Procs |-> "u1"]
  /\ cres = [p \in Procs |-> NoAnswer]
  /\ price = ListPrice
  /\ cart = EmptyCart
  /\ cartOp = NoCartOp
  /\ checkout = NoCheckout
  /\ calc = NoCalc
  /\ carts = <<>>
  /\ gcall = [p \in Procs |-> NoGetCart]

SpecOtp == InitOtp /\ [][OtpNext]_vars

InitCalc ==
  /\ stock = [v \in Variants |-> 0]
  /\ base = stock
  /\ ppc = [p \in Procs |-> "idle"]
  /\ pdoc = [p \in Procs |-> NoDoc]
  /\ preq = [p \in Procs |-> NoReq]
  /\ ord = NoOrder
  /\ odoc = [p \in Procs |-> NoOrderDoc]
  /\ over = [p \in Procs |-> 0]
  /\ olast = NoCall
  /\ ohist = <<>>
  /\ coupon = FreshCoupon
  /\ usages = <<>>
  /\ orders = [u \in Users |-> 0]
  /\ now = 1
  /\ cdoc = [p \in Procs |-> FreshCoupon]
  /\ cpc = [p \in Procs |-> "idle"]
  /\ cuser = [p \in Procs |-> "u1"]
  /\ cres = [p \in Procs |-> NoAnswer]
  /\ price = ListPrice
  /\ cart = EmptyCart
  /\ cartOp = NoCartOp
  /\ checkout = NoCheckout
  /\ calc = NoCalc
  /\ carts = <<>>
  /\ gcall = [p \in Procs |-> NoGetCart]

SpecCalc == InitCalc /\ [][CalcNext]_vars

InitGetCart ==
  /\ stock = [v \in Variants |-> 0]
  /\ base = stock
  /\ ppc = [p \in Procs |-> "idle"]
  /\ pdoc = [p \in Procs |-> NoDoc]
  /\ preq = [p \in Procs |-> NoReq]
  /\ ord = NoOrder
  /\ odoc = [p \in Procs |-> NoOrderDoc]
  /\ over = [p \in Procs |-> 0]
  /\ olast = NoCall
  /\ ohist = <<>>
  /\ coupon = FreshCoupon
  /\ usages = <<>>
  /\ orders = [u \in Users |-> 0]
  /\ now = 1
  /\ cdoc = [p \in Procs |-> FreshCoupon]
  /\ cpc = [p \in Procs |-> "idle"]
  /\ cuser = [p \in Procs |-> "u1"]
  /\ cres = [p \in Procs |-> NoAnswer]
  /\ price = ListPrice
  /\ cart = EmptyCart
  /\ cartOp = NoCartOp
  /\ checkout = NoCheckout
  /\ calc = NoCalc
  /\ carts = <<>>
  /\ gcall = [p \in Procs |-> NoGetCart]

SpecGetCart == InitGetCart /\ [][GetCartNext]_vars

(***************************************************************************)
(* C1: two purchases of one unit each, run against a variant whose stock   *)
(* was 1 when they began, end with exactly one of them successful and the  *)
(* stored stock 0, however their steps interleave.                         *)
(***************************************************************************)
C1_LastUnitSoldOnce ==
  \A v \in Variants :
    ( /\ base[v] = 1
      /\ \A p \in Procs : /\ ppc[p] = "done"
                          /\ preq[p].kind = "purchase"
                          /\ preq[p].variant = v
                          /\ preq[p].qty = 1 )
    => /\ Cardinality({p \in Procs : preq[p].result = "ok"}) = 1
       /\ stock[v] = 0

(***************************************************************************)
(* C3: whatever updateStock calls have run, with positive or negative      *)
(* deltas, the stored stock of every variant is at least 0.                *)
(***************************************************************************)
C3_StockNeverNegative == \A v \in Variants : stock[v] >= 0

\* an updateStock whose delta would have taken the stock below 0 has run
C3_Witness ==
  \E p \in Procs :
    /\ preq[p].result = "invalid"
    /\ preq[p].variant \in Variants
    /\ pdoc[p][preq[p].variant] < 0

(***************************************************************************)
(* C4: an updateStatus to a status other than the order's own succeeds     *)
(* exactly for the pairs of the transition table; every other pair fails   *)
(* and leaves the order (document and stored record) as it was.            *)
(***************************************************************************)
C4_Allowed ==
  { <<"pending", "confirmed">>, <<"pending", "cancelled">>,
    <<"confirmed", "packed">>, <<"confirmed", "cancelled">>,
    <<"packed", "out_for_delivery">>, <<"packed", "cancelled">>,
    <<"out_for_delivery", "delivered">>, <<"out_for_delivery", "cancelled">>,
    <<"delivered", "returned">> }

C4_TransitionTable ==
  (olast.result # "none" /\ olast.from # olast.to) =>
    /\ (olast.result = "ok") <=> (<<olast.from, olast.to>> \in C4_Allowed)
    /\ olast.result = "ok" => ~olast.kept /\ ord.status = olast.to
    /\ olast.result # "ok" => olast.result = "invalid" /\ olast.kept

\* delivered -> confirmed was just refused, after a transition that succeeded
C4_Witness ==
  /\ olast.result = "invalid"
  /\ olast.from = "delivered"
  /\ olast.to = "confirmed"
  /\ Len(ohist) >= 2

(***************************************************************************)
(* C5: two updateStatus requests that loaded the order in the same state   *)
(* never both succeed: no two transitions are written from the same loaded *)
(* state of the order.                                                     *)
(***************************************************************************)
C5_OneWinnerPerSource ==
  \A i, j \in 2..Len(ohist) : i # j => ohist[i].ver # ohist[j].ver

C7_UserCapHolds ==
  \A u \in Users : usageCount(usages, u) <= coupon.userUsageLimit

\* two redemptions for one customer were both found eligible under a cap of
\* one use, and both have run useCoupon to its end
C7_Witness ==
  /\ coupon.userUsageLimit = 1
  /\ \E u \in Users :
       \A p \in Procs : /\ cuser[p] = u
                        /\ cres[p].canUse
                        /\ cpc[p] \in {"done", "threw"}

(***************************************************************************)
(* C8: useCoupon raises usedCount by one and records one CouponUsage fact, *)
(* or does neither: whenever no useCoupon is under way, usedCount is the   *)
(* number of facts recorded for the coupon.                                *)
(***************************************************************************)
C8_UsedCountIsFacts ==
  (\A p \in Procs : cpc[p] # "saved") => coupon.usedCount = Len(usages)

(***************************************************************************)
(* C9: after any sequence of cart methods the stored totalItems is the sum *)
(* of the line quantities, subtotal the sum of sellingPrice * quantity and *)
(* totalDiscount the sum of (mrp - sellingPrice) * quantity plus           *)
(* couponDiscount, over the stored lines; and saving the cart again        *)
(* changes none of its totals.                                             *)
(***************************************************************************)
RECURSIVE C9_Sum(_)
C9_Sum(xs) == IF xs = <<>> THEN 0 ELSE Head(xs) + C9_Sum(Tail(xs))

C9_TotalsAreRecomputed ==
  LET items == cart.items
      lines == 1..Len(items)
      mrp(i) == items[i].price.mrp
      selling(i) == items[i].price.sellingPrice IN
  /\ cart.totalItems = C9_Sum([i \in lines |-> items[i].quantity])
  /\ cart.subtotal = C9_Sum([i \in lines |-> selling(i) * items[i].quantity])
  /\ cart.totalDiscount =
       C9_Sum([i \in lines |-> (mrp(i) - selling(i)) * items[i].quantity])
       + cart.couponDiscount
  /\ cartPreSave(cart) = cart

\* a line was removed from a cart that holds a coupon discount and a line
C9_Witness ==
  /\ cartOp.op = "removeItem"
  /\ cartOp.ok
  /\ Len(cart.items) = 1
  /\ cart.couponDiscount > 0
  /\ cart.subtotal > 0

(***************************************************************************)
(* C10: in every cart state the cart methods can reach,                    *)
(* totalAmount = subtotal + deliveryCharge - couponDiscount is not         *)
(* negative.                                                               *)
(***************************************************************************)
C10_TotalNeverNegative == cart.totalAmount >= 0

(***************************************************************************)
(* C2: a checkout that fails because a line is not available leaves the    *)
(* stock of every variant and the customer's cart as they were when it     *)
(* began: no earlier line stays decremented, no coupon usage is recorded   *)
(* and the cart is not cleared.                                            *)
(***************************************************************************)
C2_FailedCheckoutChangesNothing ==
  (checkout.pc = "failed" /\ checkout.why = "unavailable") =>
    /\ stock = checkout.start.stock
    /\ cart = checkout.start.cart
    /\ coupon.usedCount = checkout.start.usedCount
    /\ usages = checkout.start.usages

\* the second line of a two-line cart with a coupon applied was not
\* available, after the first line had been decremented
C2_Witness ==
  /\ checkout.pc = "failed"
  /\ checkout.why = "unavailable"
  /\ Len(cart.items) = 2
  /\ cart.couponCode # NoCode
  /\ isAvailable(stock, cart.items[1].variant, cart.items[1].quantity)
  /\ ~isAvailable(stock, cart.items[2].variant, cart.items[2].quantity)

(***************************************************************************)
(* C11: after every successful applyCoupon, for fixed and for percentage   *)
(* coupons alike, the stored couponDiscount is at most the cart's subtotal. *)
(***************************************************************************)
C11_DiscountAtMostSubtotal ==
  (cartOp.op = "applyCoupon" /\ cartOp.ok) =>
    cart.couponDiscount <= cart.subtotal

(***************************************************************************)
(* C12: for a coupon that is valid for usage and a subtotal at or above    *)
(* its minOrderAmount, calculateDiscount returns, for a percentage coupon,  *)
(* subtotal * discountValue / 100 lowered to a positive maxDiscount and     *)
(* then to the subtotal, and for a fixed coupon discountValue lowered to   *)
(* the subtotal.                                                           *)
(***************************************************************************)
C12_Least(S) == CHOOSE x \in S : \A y \in S : x <= y

C12_CalculateDiscount ==
  (/\ calc.fn = "calculateDiscount"
   /\ isValidForUsage(calc.coupon, calc.now)
   /\ calc.cartTotal >= calc.coupon.minOrderAmount) =>
    LET c == calc.coupon
        subtotal == calc.cartTotal
        caps == {subtotal}
                \cup (IF c.discountType = "percentage" /\ c.maxDiscount > 0
                      THEN {c.maxDiscount} ELSE {})
        amount == IF c.discountType = "percentage"
                  THEN (subtotal * c.discountValue) \div 100
                  ELSE c.discountValue IN
    /\ calc.out.ok
    /\ calc.out.discount = C12_Least(caps \cup {amount})

\* 10% capped at 100 on a subtotal of 2000 gives 100
C12_Witness ==
  /\ calc.fn = "calculateDiscount"
  /\ calc.coupon.discountType = "percentage"
  /\ calc.coupon.discountValue = 10
  /\ calc.coupon.maxDiscount = 100
  /\ calc.cartTotal = 2000
  /\ calc.out.ok
  /\ calc.out.discount = 100

(***************************************************************************)
(* C13: validation reports the reason of the earliest violated condition   *)
(* in the order: code not found; inactive or outside the validity window;  *)
(* global usage cap exhausted; first-order-only and a prior order; per-    *)
(* customer cap reached; subtotal below minOrderAmount.  The coupon is     *)
(* eligible only when none is violated.                                    *)
(***************************************************************************)
C13_Violated ==
  LET c == calc.coupon IN
  <<~calc.found,
    ~c.isActive \/ calc.now < c.validFrom \/ calc.now > c.validUntil,
    c.usageLimit # Null /\ c.usedCount >= c.usageLimit,
    c.isFirstOrderOnly /\ calc.orderCount >= 1,
    calc.userUsageCount >= c.userUsageLimit,
    calc.subtotal < c.minOrderAmount>>

C13_Reason ==
  <<"Coupon not found", "Coupon is not valid", "Coupon is not valid",
    "This coupon is only valid for first order",
    "You have already used this coupon maximum times",
    "Minimum order amount required">>

C14_ApplyAgreesWithEvaluator ==
  (cartOp.op = "applyCoupon" /\ cartOp.ok) =>
    canUserUseCoupon(coupon, now, orders["u1"], usageCount(usages, "u1")).canUse

(***************************************************************************)
(* C15: with userUsageLimit = 1 and the global cap not reached, once       *)
(* useCoupon has run for a customer a further eligibility check for that   *)
(* customer answers "not usable", while the check for a customer who has   *)
(* not used the coupon still answers "usable".                             *)
(***************************************************************************)
C15_Used(u) ==
  \E p \in Procs :
    /\ cuser[p] = u
    /\ cpc[p] = "threw" \/ (cpc[p] = "done" /\ cres[p].canUse)

C15_CapAfterUse ==
  [][\A q \in Procs :
       (cpc[q] = "loaded" /\ cpc'[q] # "loaded" /\ coupon.userUsageLimit = 1) =>
         /\ C15_Used(cuser[q]) => ~cres'[q].canUse
         /\ (/\ ~C15_Used(cuser[q])
             /\ usageCount(usages, cuser[q]) = 0
             /\ isValidForUsage(cdoc[q], now)
             /\ ~(cdoc[q].isFirstOrderOnly /\ orders[cuser[q]] > 0))
            => cres'[q].canUse]_vars

C17_UpdateItemQuantity ==
  (/\ calc.fn = "updateItemQuantity"
   /\ findItem(calc.before.items, calc.product, calc.variant) > 0) =>
    LET i == findItem(calc.before.items, calc.product, calc.variant)
        q == calc.quantity IN
    IF q <= 0
    THEN /\ cartOp.ok
         /\ cart.items = spliceItem(calc.before.items, i)
    ELSE IF calc.variant \in DOMAIN stock /\ stock[calc.variant] >= q
    THEN /\ cartOp.ok
         /\ cart.items = [calc.before.items EXCEPT ![i].quantity = q]
    ELSE /\ ~cartOp.ok
         /\ cart = calc.before

(***************************************************************************)
(* C18: the cart's deliveryCharge follows the three tiers on the           *)
(* recomputed subtotal: 0 from the free-delivery threshold up, the flat    *)
(* fee from the minimum order up to the threshold, 0 below the minimum     *)
(* order; with 99, 299 and 29: 250 gives 29, 300 gives 0, 50 gives 0.      *)
(***************************************************************************)
C18_DeliveryTiers ==
  LET subtotal == sumSelling(cart.items) IN
  /\ cart.subtotal = subtotal
  /\ subtotal >= freeDeliveryAbove => cart.deliveryCharge = 0
  /\ (minOrderAmount <= subtotal /\ subtotal < freeDeliveryAbove) =>
       cart.deliveryCharge = deliveryCharge
  /\ subtotal < minOrderAmount => cart.deliveryCharge = 0
  /\ subtotal = 250 => cart.deliveryCharge = 29
  /\ subtotal = 300 => cart.deliveryCharge = 0
  /\ subtotal = 50 => cart.deliveryCharge = 0

\* a saved cart of 250: two of v1 and one of v2
C18_Witness ==
  /\ cartOp.ok
  /\ cartOp.op \in {"addItem", "updateItemQuantity", "removeItem"}
  /\ cart.subtotal = 250
  /\ cart.deliveryCharge = 29

(***************************************************************************)
(* C19: calculateRefundAmount returns 0 for a cash-on-delivery order in    *)
(* every status; for any other payment method it returns totalAmount when  *)
(* the status is pending or confirmed, totalAmount - deliveryCharge when   *)
(* it is packed, and 0 when it is out_for_delivery or delivered.           *)
(***************************************************************************)
C19_RefundTable ==
  calc.fn = "calculateRefundAmount" =>
    /\ calc.method = "cod" => calc.out = 0
    /\ calc.method # "cod" =>
         /\ calc.status \in {"pending", "confirmed"} =>
              calc.out = calc.totalAmount
         /\ calc.status = "packed" =>
              calc.out = calc.totalAmount - calc.deliveryCharge
         /\ calc.status \in {"out_for_delivery", "delivered"} => calc.out = 0

\* a card-paid packed order of 279 with a delivery charge of 29: 250
C19_Witness ==
  /\ calc.fn = "calculateRefundAmount"
  /\ calc.method = "card"
  /\ calc.status = "packed"
  /\ calc.totalAmount = 279
  /\ calc.deliveryCharge = 29
  /\ calc.out = 250

(***************************************************************************)
(* C20: for an order not paid cash on delivery that a successful           *)
(* updateStatus('cancelled') has cancelled, calculateRefundAmount on the   *)
(* cancelled order returns totalAmount when the order was pending and      *)
(* totalAmount - deliveryCharge when it was packed.                        *)
(***************************************************************************)
C20_RefundOfCancelledOrder ==
  (/\ calc.fn = "calculateRefundAmount of"
   /\ calc.method # "cod"
   /\ calc.status = "cancelled"
   /\ calc.last.by = calc.by
   /\ calc.last.result = "ok"
   /\ calc.last.to = "cancelled") =>
    /\ calc.last.from = "pending" => calc.out = calc.totalAmount
    /\ calc.last.from = "packed" =>
         calc.out = calc.totalAmount - calc.deliveryCharge

(***************************************************************************)
(* C21: updateStatus(s) on an order already in status s succeeds and       *)
(* changes nothing: not the status, not the tracking list (no entry is     *)
(* appended), not actualDeliveryTime nor any other field, for every        *)
(* status s and however often it is repeated.                              *)
(***************************************************************************)
C21_SameStatusIsNoOp ==
  [][(olast' # olast /\ olast'.op = "updateStatus" /\ olast'.from = olast'.to) =>
       /\ olast'.result = "noop"
       /\ ord' = ord
       /\ odoc' = odoc]_vars

\* a delivered order, two transitions after its creation, asked to be
\* delivered again
C21_Witness ==
  /\ olast.op = "updateStatus"
  /\ olast.result = "noop"
  /\ olast.from = "delivered"
  /\ ord.status = "delivered"
  /\ Len(ord.tracking) = 3

(***************************************************************************)
(* C22: assignDeliveryPartner succeeds only from packed, where it moves    *)
(* the order to out_for_delivery and records the partner; from a status    *)
(* that does not allow the transition to out_for_delivery it fails with    *)
(* the invalid-transition error and leaves the order unchanged, its        *)
(* deliveryPartner included.                                               *)
(***************************************************************************)
C22_AssignDeliveryPartner ==
  [][(olast' # olast /\ olast'.op = "assignDeliveryPartner") =>
       IF olast'.from = "packed"
       THEN /\ olast'.result = "ok"
            /\ ord'.status = "out_for_delivery"
            /\ ord'.deliveryPartner \in Partners
       ELSE /\ olast'.result = "invalid"
            /\ ord' = ord
            /\ odoc' = odoc]_vars

(***************************************************************************)
(* C23: every newly created order has status pending and a tracking list   *)
(* of exactly one entry, with status pending and the note 'Order placed    *)
(* successfully', whatever field values the creator supplied.              *)
(***************************************************************************)
C23_CreatedPending ==
  (ord.exists /\ Len(ohist) = 1) =>
    /\ ord.status = "pending"
    /\ ord.tracking = <<[status |-> "pending",
                         note |-> "Order placed successfully"]>>

(***************************************************************************)
(* C24: updateStock(variantId, delta) fails when stock + delta would be    *)
(* below zero and fails with the not-found error when the variant is not   *)
(* on the product; on either failure the stock of every variant is as it   *)
(* was.                                                                    *)
(***************************************************************************)
C24_UpdateStockFailures ==
  [][\A p \in Procs :
       (preq'[p] # preq[p] /\ preq'[p].result \in {"ok", "invalid", "notfound"}) =>
         LET v == preq'[p].variant
             d == preq'[p].delta IN
         /\ ~hasVariant(pdoc[p], v) =>
              preq'[p].result = "notfound" /\ stock' = stock
         /\ (hasVariant(pdoc[p], v) /\ pdoc[p][v] + d < 0) =>
              preq'[p].result = "invalid" /\ stock' = stock
         /\ preq'[p].result # "ok" => stock' = stock]_vars

\* a request took two units off a variant that had one: refused, stock kept
C24_Witness ==
  \E p \in Procs :
    /\ preq[p].result = "invalid"
    /\ preq[p].delta = 0 - 2
    /\ pdoc[p][preq[p].variant] = 0 - 1
    /\ stock[preq[p].variant] = 1

C26_ApplyCouponMinimum ==
  [][cartOp'.op = "applyCoupon" =>
       /\ (/\ coupon.code = "FLAT50"
           /\ findCoupon(coupon, "FLAT50", now)
           /\ cart.subtotal = 300
           /\ cartOp'.error # "Invalid or expired coupon") =>
            /\ cartOp'.ok
            /\ cart'.couponCode = "FLAT50"
            /\ cart'.couponDiscount = 50
            /\ cart'.totalAmount = 300 + cart'.deliveryCharge - 50
       /\ (coupon.code = "FLAT50" /\ cart.subtotal = 200) =>
            ~cartOp'.ok /\ cart' = cart
       /\ cart.subtotal < coupon.minOrderAmount =>
            ~cartOp'.ok /\ cart' = cart]_vars

\* FLAT50 applied to two of each variant
C26_Witness ==
  /\ cartOp.op = "applyCoupon"
  /\ cartOp.ok
  /\ cart.subtotal = 300
  /\ cart.couponCode = "FLAT50"
  /\ cart.couponDiscount = 50
  /\ cart.totalAmount = 250

(***************************************************************************)
(* C27: after every save of a product with at least one variant, exactly   *)
(* one of its variants has isDefault = true; when no variant was flagged,  *)
(* the first variant becomes the default.                                  *)
(***************************************************************************)
C27_ExactlyOneDefault ==
  (calc.fn = "product save" /\ Len(calc.out) > 0) =>
    /\ Cardinality({i \in 1..Len(calc.out) : calc.out[i]}) = 1
    /\ (\A i \in 1..Len(calc.isDefault) : ~calc.isDefault[i]) => calc.out[1]

(***************************************************************************)
(* C29: no two orders hold the same orderNumber: for every pair of order   *)
(* creations, whatever their creation times and random suffixes, the       *)
(* generated order numbers differ.                                         *)
(***************************************************************************)
C29_OrderNumbersDiffer ==
  calc.fn = "create two orders" => calc.out[1] # calc.out[2]

(***************************************************************************)
(* C28: in every reachable state at most one cart exists per customer,     *)
(* also when two getCartByUser calls for the same customer, who has no     *)
(* cart yet, both read 'no cart' before either creates one.                *)
(***************************************************************************)
C28_OneCartPerCustomer ==
  \A u \in Users :
    Cardinality({i \in 1..Len(carts) : carts[i].user = u}) <= 1

\* both requests found no cart for u1; one created it, the other's create
\* was refused
C28_Witness ==
  /\ gcall["r1"] = [pc |-> "done", user |-> "u1", result |-> "created"]
  /\ gcall["r2"] = [pc |-> "done", user |-> "u1",
                   result |-> "E11000 duplicate key"]
  /\ Cardinality({i \in 1..Len(carts) : carts[i].user = "u1"}) = 1

(***************************************************************************)
(* C30: the price of a cart line is the variant's price at the moment the  *)
(* line is first added, and no later step changes it: not a change of the  *)
(* variant's mrp or sellingPrice, not an addItem that merges into the      *)
(* line, not an updateItemQuantity.                                        *)
(***************************************************************************)
C30_PriceSnapshotKept ==
  [][\A j \in 1..Len(cart'.items) :
       LET line == cart'.items[j]
           i == findItem(cart.items, line.product, line.variant) IN
       IF i > 0 THEN line.price = cart.items[i].price
                ELSE line.price = price[line.variant]]_vars

\* a line added at the list price, merged into after the price was revised
C30_Witness ==
  /\ cartOp = [op |-> "addItem", ok |-> TRUE, error |-> ""]
  /\ Len(cart.items) = 1
  /\ cart.items[1].variant = "v1"
  /\ cart.items[1].quantity = 2
  /\ cart.items[1].price = ListPrice["v1"]
  /\ price["v1"] = RevisedPrice["v1"]

(***************************************************************************)
(* C31: a cart's totals are a function of its present lines and applied    *)
(* coupon: after any addItem, updateItemQuantity and removeItem that       *)
(* follow a successful applyCoupon, the stored couponDiscount is the       *)
(* discount the applied coupon yields on the cart's present subtotal, not  *)
(* the discount computed when the coupon was applied.                      *)
(***************************************************************************)
C31_DiscountFollowsSubtotal ==
  cart.couponCode = coupon.code =>
    LET again == applyCouponDoc(cart, coupon, coupon.code, now) IN
    again.ok /\ cart.couponDiscount = again.cart.couponDiscount

(***************************************************************************)
(* C38: whenever a cart holds an applied coupon code its present subtotal  *)
(* is at least that coupon's minOrderAmount: removing lines or lowering    *)
(* quantities after applyCoupon never leaves a coupon on a cart that no    *)
(* longer meets the coupon's minimum.                                      *)
(***************************************************************************)
C38_CouponMinimumKept ==
  cart.couponCode = coupon.code => cart.subtotal >= coupon.minOrderAmount

(***************************************************************************)
(* C32: a successful transition to delivered sets actualDeliveryTime and   *)
(* nothing else does: for an order created without it, actualDeliveryTime  *)
(* is set in exactly the states in which the order has made a successful   *)
(* transition to delivered.                                                *)
(***************************************************************************)
C32_DeliveryTimeIffDelivered ==
  ord.exists =>
    (ord.actualDeliveryTime <=>
       \E i \in 2..Len(ohist) : ohist[i].status = "delivered")

\* the order was delivered and then returned
C32_Witness ==
  /\ ord.actualDeliveryTime
  /\ ord.status = "returned"
  /\ ohist[2].status = "delivered"

(***************************************************************************)
(* C33: in every reachable state of an order the timestamps of its         *)
(* tracking entries are non-decreasing in list order, the clock never      *)
(* going backwards, also when transitions of the order are requested       *)
(* concurrently.                                                           *)
(***************************************************************************)
C33_TimestampsInOrder ==
  \A i \in 1..(Len(ord.tracking) - 1) :
    ord.tracking[i].timestamp <= ord.tracking[i + 1].timestamp

(***************************************************************************)
(* C34: a created order has a delivery OTP if and only if its payment      *)
(* method is cash-on-delivery, the OTP is then a numeric code between 1000 *)
(* and 9999, and no status transition issues, changes or clears it.        *)
(***************************************************************************)
C34_Number(otp) == otp[1] * 1000 + otp[2] * 100 + otp[3] * 10 + otp[4]

C40_OneLinePerPair ==
  \A i, j \in 1..Len(cart.items) :
    (/\ cart.items[i].product = cart.items[j].product
     /\ cart.items[i].variant = cart.items[j].variant) => i = j

(***************************************************************************)
(* C35: in every persisted cart state every line has quantity >= 1, after  *)
(* any sequence of addItem and updateItemQuantity calls, also after        *)
(* addItem with a quantity of 0 or below, alone or merged into a line.     *)
(***************************************************************************)
C35_QuantityAtLeastOne ==
  \A i \in 1..Len(cart.items) : cart.items[i].quantity >= 1

\* both variants are in the cart, so the addItem that save() refused was a
\* merge of a quantity of 0 or below
C35_Witness ==
  /\ cartOp = [op |-> "addItem", ok |-> FALSE, error |-> "ValidationError"]
  /\ Len(cart.items) = 2
  /\ \E i \in 1..2 : cart.items[i].quantity = 1

(***************************************************************************)
(* C36: a percentage coupon whose maxDiscount is set to 0 yields a         *)
(* discount of 0: the cap is applied for every maxDiscount that is set,    *)
(* zero included.                                                          *)
(***************************************************************************)
C36_ZeroCapApplies ==
  (/\ calc.fn = "calculateDiscount"
   /\ calc.coupon.discountType = "percentage"
   /\ calc.coupon.maxDiscount = 0
   /\ calc.out.ok) => calc.out.discount = 0

(***************************************************************************)
(* C37: for a coupon with a usageLimit, usedCount never exceeds usageLimit *)
(* in any reachable state, however the redemptions of different customers  *)
(* (the eligibility check, then useCoupon) interleave.                     *)
(***************************************************************************)
C37_UsedCountWithinLimit ==
  coupon.usageLimit # Null => coupon.usedCount <= coupon.usageLimit

\* two customers were both found eligible under a cap of 1 and both ran
\* useCoupon; each wrote usedCount = 1
C37_Witness ==
  /\ coupon.usageLimit = 1
  /\ coupon.usedCount = 1
  /\ cuser["r1"] # cuser["r2"]
  /\ \A p \in Procs : /\ cres[p].canUse
                      /\ cpc[p] \in {"saved", "threw", "done"}
                      /\ cdoc[p].usedCount = 1

(***************************************************************************)
(* C39: for every order whose summary mirrors totals a cart can reach,     *)
(* calculateRefundAmount returns r with 0 <= r <= totalAmount in every     *)
(* status; the refund of a packed order, totalAmount - deliveryCharge, is  *)
(* never negative.                                                         *)
(***************************************************************************)
C39_RefundWithinTotal ==
  calc.fn = "calculateRefundAmount of a cart's order" =>
    /\ 0 <= calc.out
    /\ calc.out <= calc.totalAmount

=============================================================================
